---------------------------- MODULE Spec2Model ----------------------------
(***************************************************************************)
(* Verification model of the LogPot transport delivery engine:             *)
(*   - AsyncJobQueue   (packages/utils/src/asyncJobQueue.ts)               *)
(*   - withRetry       (packages/utils/src/withRetry.ts)                   *)
(*   - FileRotator     (logpot/src/transports/fileRotator.ts)              *)
(*   - Transport       (logpot/src/transports/transport.ts) with a         *)
(*     buffered sink and its worker replica.                               *)
(*   - FileTransport   (logpot/src/transports/fileTransport.ts) with its   *)
(*     rotator, and the rotator's shouldRotate and retention.              *)
(* Each component has its own specification over its own variables; the    *)
(* variables of the other components stay at their initial values.         *)
(***************************************************************************)
EXTENDS Integers, Sequences, FiniteSets, TLC

VARIABLES
  \* ---- AsyncJobQueue ----
  concArg,      \* the constructor argument `concurrency`
  concurrency,  \* this.concurrency
  queue,        \* this.queue : jobs not yet started (job ids, FIFO)
  running,      \* this.running
  waiters,      \* this.waiters : pending drain() calls
  jobState,     \* per job: where the job's promise chain stands
  drainState,   \* per drain() call: "idle" | "pending" | "done" | "immediate"
  spawned,      \* jobs that were enqueued by a running job
  \* ---- withRetry ----
  rOpt,         \* the call's arguments and the operation's behaviour
  rMaxRetry,    \* reqOpt.maxRetry after coercion
  rAttempt,     \* attempt
  rPc,          \* where the call stands
  rCalls,       \* number of times operation() was invoked
  rLastError,   \* lastError: [attempt, kind], attempt 0 when unset
  rBroke,       \* why the loop was left by break: "none" | "code" | "stop"
  rDelays,      \* backoff delays waited
  rOnErrorCalls,\* times the onError callback was invoked
  rK,           \* the attempt count stated by the final error, 0 when none
  \* ---- FileRotator ----
  rotOpts,      \* opts: compress, maxFiles (hasMaxFiles FALSE: not set)
  rotIsRotating,\* isRotating
  rotPromise,   \* rotationPromise: the call that created it, 0 when undefined
  rotResolved,  \* the calls whose rotationPromise has been resolved
  rotCall,      \* per rotate() call: its position, result and what it did
  rotErrors,    \* number of onError invocations
  \* ---- Transport (caller side "main", worker replica "rep") ----
  sinkOpt,      \* options.batchSize and options.concurrency of the sink
  tr,           \* per context: the Transport fields and its sink's state
  worker,       \* main's this.worker: "none" | "set"
  wstate,       \* the worker thread: "none" | "starting" | "ready" | "errored" | "exited"
  toWorker,     \* messages posted to the worker, not yet handled
  toMain,       \* messages posted by the worker, not yet handled
  hs,           \* per handshake: its promise, the withTimeout promise around it, its listeners
  call,         \* per context and call: the flushAndWait()/close() call's position
  promote,      \* the runAsWorker() call's position
  errs,         \* the TransportErrors handed to main's error channel (options.onError)
  \* ---- Transport.runAsWorker, several calls ----
  pWorker,      \* this.worker: 0 when undefined, else the worker's number
  pCreated,     \* the workers createWorker() has returned so far
  pPosted,      \* the workers the serialized options were posted to
  pCall,        \* per runAsWorker() call: its position
  \* ---- FileTransport with its FileRotator ----
  fOpt,         \* options.batchSize and options.rotate
  ft,           \* the FileTransport fields and its queue
  fLive,        \* the entries in the live file
  fRotated,     \* the rotated files, oldest first: content and whether gzipped
  fRot,         \* the rotation in progress: position, the batch that triggered it
  fWait,        \* the flushAndWait() call in progress: position and snapshot
  fErrs,        \* number of handleError calls
  fStrict,      \* every log() so far was made when all earlier entries were flushed
  \* ---- FileRotator.shouldRotate ----
  srOpt,        \* opts.interval and opts.maxSize (hasMaxSize FALSE: not set)
  srNow,        \* the UTC clock: day and hour
  srKey,        \* this.currentKey
  srCalls,      \* the shouldRotate() calls so far: argument, keys, result
  \* ---- FileRotator.retention ----
  dOpt,         \* maxFiles and whether the filename has an extension
  dDir,         \* the directory's entries
  dRet,         \* the retention() call: position, candidates, excess, index
  dFailed,      \* the entries whose unlink failed
  \* ---- Transport.workerHandshake and its withTimeout timer ----
  tmOpt,        \* options.worker.readyTimeout and closeTimeout as given (0: not given)
  tmHs,         \* the handshake: its command, position, the timer's ms, when it settled
  tmElapsed,    \* ms since the handshake started
  \* ---- HttpTransport.sendBatch over withRetry, and isRetryableHttpError ----
  hErr,         \* the error of the chunk's last failed HTTP attempt
  hProbe,       \* a direct call of isRetryableHttpError: its argument and result
  \* ---- FileTransport: what fails ----
  fBad,         \* the entries the formatter throws on
  \* ---- FileTransport: close() ----
  fClose        \* the close() call: position, isClosing, isClosed, the flush timer, diagnostics

qvars == <<concArg, concurrency, queue, running, waiters, jobState, drainState, spawned>>
rvars == <<rOpt, rMaxRetry, rAttempt, rPc, rCalls, rLastError, rBroke, rDelays,
           rOnErrorCalls, rK>>

rotvars == <<rotOpts, rotIsRotating, rotPromise, rotResolved, rotCall, rotErrors>>

tvars == <<sinkOpt, tr, worker, wstate, toWorker, toMain, hs, call, promote, errs>>

pvars == <<pWorker, pCreated, pPosted, pCall>>

fvars == <<fOpt, ft, fLive, fRotated, fRot, fWait, fErrs, fStrict>>

svars == <<srOpt, srNow, srKey, srCalls>>

dvars == <<dOpt, dDir, dRet, dFailed>>

tmvars == <<tmOpt, tmHs, tmElapsed>>

hvars == <<hErr, hProbe>>

fxvars == <<fBad>>

fcvars == <<fClose>>

vars == <<qvars, rvars, rotvars, tvars, pvars, fvars, svars, dvars, tmvars, hvars, fxvars, fcvars>>

\* The variables of the components a specification leaves alone.
ExceptQueue == <<rvars, rotvars, tvars, pvars, fvars, svars, dvars, tmvars, hvars, fxvars, fcvars>>
ExceptRetry == <<qvars, rotvars, tvars, pvars, fvars, svars, dvars, tmvars, hvars, fxvars, fcvars>>
ExceptRotator == <<qvars, rvars, tvars, pvars, fvars, svars, dvars, tmvars, hvars, fxvars, fcvars>>
Others == <<qvars, rvars, rotvars, pvars, fvars, svars, dvars, tmvars, hvars, fxvars, fcvars>>
ExceptPromote == <<qvars, rvars, rotvars, tvars, fvars, svars, dvars, tmvars, hvars, fxvars, fcvars>>
ExceptFile == <<qvars, rvars, rotvars, tvars, pvars, svars, dvars, tmvars, hvars, fxvars, fcvars>>
ExceptShould == <<qvars, rvars, rotvars, tvars, pvars, fvars, dvars, tmvars, hvars, fxvars, fcvars>>
ExceptRetention == <<qvars, rvars, rotvars, tvars, pvars, fvars, svars, tmvars, hvars, fxvars, fcvars>>
ExceptTimer == <<qvars, rvars, rotvars, tvars, pvars, fvars, svars, dvars, hvars, fxvars, fcvars>>
ExceptHttp == <<qvars, rvars, rotvars, tvars, pvars, fvars, svars, dvars, tmvars, fxvars, fcvars>>
ExceptHttpSend == <<qvars, rotvars, tvars, pvars, fvars, svars, dvars, tmvars, fxvars, fcvars>>
ExceptFileFaults == <<qvars, rvars, rotvars, tvars, pvars, fvars, svars, dvars, tmvars, hvars, fcvars>>
ExceptClose == <<qvars, rvars, rotvars, tvars, pvars, fvars, svars, dvars, tmvars, hvars, fxvars>>
ExceptFileClose == <<qvars, rvars, rotvars, tvars, pvars, svars, dvars, tmvars, hvars, fxvars>>

Max(a, b) == IF a >= b THEN a ELSE b
Min(a, b) == IF a <= b THEN a ELSE b

(***************************************************************************)
(*                            AsyncJobQueue                                *)
(***************************************************************************)
MaxJobs == 4        \* jobs enqueued in one run
MaxDrains == 2      \* drain() calls in one run
MaxConcArg == 3     \* largest constructor argument tried

Jobs == 1..MaxJobs
Drains == 1..MaxDrains
ConcArgs == (0 - 1)..MaxConcArg

\* constructor: this.concurrency = Math.max(1, concurrency)
QueueCtor(c) == Max(1, c)

\* schedule(): while (running < concurrency && queue.length > 0) start the head.
\* Returns the queue, the counter and the jobs started, in start order.
RECURSIVE ScheduleLoop(_, _, _, _)
ScheduleLoop(qu, run, conc, started) ==
  IF run < conc /\ Len(qu) > 0
    THEN ScheduleLoop(Tail(qu), run + 1, conc, Append(started, Head(qu)))
    ELSE [queue |-> qu, running |-> run, started |-> started]

\* Mutant: the loop guard reads running <= concurrency.
ScheduleOffByOne(qu, run, conc) == ScheduleLoop(qu, run, conc + 1, <<>>)

Schedule(qu, run, conc) == ScheduleLoop(qu, run, conc, <<>>)

SeqToSet(s) == {s[i] : i \in 1..Len(s)}

\* get length(): this.queue.length
QueueLength == Len(queue)

\* Jobs started whose promise has not settled yet.
StartedNotSettled == {j \in Jobs : jobState[j] = "running"}

NextJob == CHOOSE j \in Jobs : jobState[j] = "new" /\ \A k \in Jobs : (jobState[k] = "new") => j <= k

\* Mutant: enqueue() puts the job at the head of the list (unshift).
EnqueueAtFront(byRunning) ==
  /\ \E j \in Jobs : jobState[j] = "new"
  /\ byRunning => StartedNotSettled # {}
  /\ LET j == NextJob
         s == Schedule(<<j>> \o queue, running, concurrency)
     IN /\ queue' = s.queue
        /\ running' = s.running
        /\ jobState' = [k \in Jobs |->
                          IF k \in SeqToSet(s.started) THEN "running"
                          ELSE IF k = j THEN "queued"
                          ELSE jobState[k]]
        /\ spawned' = IF byRunning THEN spawned \cup {j} ELSE spawned
  /\ UNCHANGED <<concArg, concurrency, waiters, drainState>>

\* enqueue(job): push, then schedule().  Called by the owner of the queue or
\* by a job that is running (byRunning).
Enqueue(byRunning) ==
  /\ \E j \in Jobs : jobState[j] = "new"
  /\ byRunning => StartedNotSettled # {}
  /\ LET j == NextJob
         s == Schedule(Append(queue, j), running, concurrency)
     IN /\ queue' = s.queue
        /\ running' = s.running
        /\ jobState' = [k \in Jobs |->
                          IF k \in SeqToSet(s.started) THEN "running"
                          ELSE IF k = j THEN "queued"
                          ELSE jobState[k]]
        /\ spawned' = IF byRunning THEN spawned \cup {j} ELSE spawned
  /\ UNCHANGED <<concArg, concurrency, waiters, drainState>>

\* The promise returned by job() settles (resolves or rejects); the queue's
\* .catch(...).finally(...) callbacks have not run yet.
JobSettles(j, how) ==
  /\ jobState[j] = "running"
  /\ jobState' = [jobState EXCEPT ![j] = how]
  /\ UNCHANGED <<concArg, concurrency, queue, running, waiters, drainState, spawned>>

\* Mutant: the bookkeeping hangs on .then(...) and so runs for a job that
\* resolves only.
JobFinallyResolvedOnly(j) ==
  /\ jobState[j] = "resolved"
  /\ LET s == Schedule(queue, running - 1, concurrency)
         idle == s.running = 0 /\ Len(s.queue) = 0
     IN /\ queue' = s.queue
        /\ running' = s.running
        /\ jobState' = [k \in Jobs |->
                          IF k \in SeqToSet(s.started) THEN "running"
                          ELSE IF k = j THEN "finished"
                          ELSE jobState[k]]
        /\ waiters' = IF idle THEN {} ELSE waiters
        /\ drainState' = [d \in Drains |->
                            IF idle /\ d \in waiters THEN "done" ELSE drainState[d]]
  /\ UNCHANGED <<concArg, concurrency, spawned>>

\* Mutant: the waiters are notified as soon as the counter reaches zero,
\* before schedule() has pulled the waiting jobs.
JobFinallyNotifyEarly(j) ==
  /\ jobState[j] \in {"resolved", "rejected"}
  /\ LET s == Schedule(queue, running - 1, concurrency)
         idle == running - 1 = 0
     IN /\ queue' = s.queue
        /\ running' = s.running
        /\ jobState' = [k \in Jobs |->
                          IF k \in SeqToSet(s.started) THEN "running"
                          ELSE IF k = j THEN "finished"
                          ELSE jobState[k]]
        /\ waiters' = IF idle THEN {} ELSE waiters
        /\ drainState' = [d \in Drains |->
                            IF idle /\ d \in waiters THEN "done" ELSE drainState[d]]
  /\ UNCHANGED <<concArg, concurrency, spawned>>

\* .finally() that resolves only the oldest waiter when the queue is idle.
JobFinallyNotifyOne(j) ==
  /\ jobState[j] \in {"resolved", "rejected"}
  /\ LET s == Schedule(queue, running - 1, concurrency)
         idle == s.running = 0 /\ Len(s.queue) = 0
         first == IF waiters = {} THEN {}
                  ELSE {CHOOSE d \in waiters : \A e \in waiters : d <= e}
     IN /\ queue' = s.queue
        /\ running' = s.running
        /\ jobState' = [k \in Jobs |->
                          IF k \in SeqToSet(s.started) THEN "running"
                          ELSE IF k = j THEN "finished"
                          ELSE jobState[k]]
        /\ waiters' = IF idle THEN waiters \ first ELSE waiters
        /\ drainState' = [d \in Drains |->
                            IF idle /\ d \in first THEN "done" ELSE drainState[d]]
  /\ UNCHANGED <<concArg, concurrency, spawned>>

\* .finally(): running--, schedule(), and when nothing is left anywhere
\* resolve every waiter and clear the list.
JobFinally(j) ==
  /\ jobState[j] \in {"resolved", "rejected"}
  /\ LET s == Schedule(queue, running - 1, concurrency)
         idle == s.running = 0 /\ Len(s.queue) = 0
     IN /\ queue' = s.queue
        /\ running' = s.running
        /\ jobState' = [k \in Jobs |->
                          IF k \in SeqToSet(s.started) THEN "running"
                          ELSE IF k = j THEN "finished"
                          ELSE jobState[k]]
        /\ waiters' = IF idle THEN {} ELSE waiters
        /\ drainState' = [d \in Drains |->
                            IF idle /\ d \in waiters THEN "done" ELSE drainState[d]]
  /\ UNCHANGED <<concArg, concurrency, spawned>>

\* drain(): returns at once when idle, else pushes a waiter.
Drain(d) ==
  /\ drainState[d] = "idle"
  /\ IF running = 0 /\ Len(queue) = 0
       THEN /\ drainState' = [drainState EXCEPT ![d] = "immediate"]
            /\ UNCHANGED waiters
       ELSE /\ drainState' = [drainState EXCEPT ![d] = "pending"]
            /\ waiters' = waiters \cup {d}
  /\ UNCHANGED <<concArg, concurrency, queue, running, jobState, spawned>>

QueueInitState ==
  /\ queue = <<>>
  /\ running = 0
  /\ waiters = {}
  /\ jobState = [j \in Jobs |-> "new"]
  /\ drainState = [d \in Drains |-> "idle"]
  /\ spawned = {}

(***************************************************************************)
(*                               withRetry                                 *)
(***************************************************************************)
MaxRetryArg == 4       \* largest opt.maxRetry tried
MaxFail == 4           \* most failures before the operation succeeds
DefaultMaxRetry == 3   \* DEFAULTS.maxRetry

\* What a failed attempt throws: an AbortError, an error whose code is in
\* the retryErrorCodes list, one whose code is not, one without a code.
ErrKinds == {"abort", "listed", "unlisted", "nocode"}

\* The arguments: opt.maxRetry (given or not), retryErrorCodes (a non-empty
\* list or none), onError (given or not), and the number of times the
\* operation fails before it succeeds.
RetryInputs ==
  [hasMaxRetry : {TRUE}, maxRetry : (0 - 1)..MaxRetryArg,
   hasCodes : BOOLEAN, hasOnError : BOOLEAN, failN : 0..MaxFail]
  \cup
  [hasMaxRetry : {FALSE}, maxRetry : {DefaultMaxRetry},
   hasCodes : BOOLEAN, hasOnError : BOOLEAN, failN : 0..MaxFail]

\* Mutant: a maxRetry below 1 is not coerced.
CoerceMaxRetryMissing(o) == o.maxRetry

\* reqOpt = { ...DEFAULTS, ...opt }; if (maxRetry == null || maxRetry < 1) maxRetry = 1
CoerceMaxRetry(o) ==
  LET merged == IF o.hasMaxRetry THEN o.maxRetry ELSE DefaultMaxRetry
  IN IF merged < 1 THEN 1 ELSE merged

\* Mutant: the message counts `attempt` itself.
RetryThrowFinalCountsAttempt ==
  /\ rPc' = "rejected"
  /\ rK' = rAttempt

\* throw new Error(`Operation failed after ${Math.min(attempt, maxRetry)} attempts`)
RetryThrowFinal ==
  /\ rPc' = "rejected"
  /\ rK' = Min(rAttempt, rMaxRetry)

\* Loop head: for (; attempt <= maxRetry; attempt++) { ... await operation(signal)
RetryLoopHead ==
  /\ rPc = "loop"
  /\ IF rAttempt <= rMaxRetry
       THEN /\ rCalls' = rCalls + 1
            /\ rPc' = "op"
            /\ UNCHANGED rK
       ELSE /\ RetryThrowFinal
            /\ UNCHANGED rCalls
  /\ UNCHANGED <<rOpt, rMaxRetry, rAttempt, rLastError, rBroke, rDelays, rOnErrorCalls>>

\* The catch block without `if (!code) break`: an error without a code is
\* handed to onError like a listed one.
RetryOpSettlesNoCodeRetried(kind) ==
  /\ rPc = "op"
  /\ IF rCalls > rOpt.failN
       THEN /\ rPc' = "returned"
            /\ UNCHANGED <<rLastError, rBroke, rK>>
       ELSE /\ rLastError' = [attempt |-> rAttempt, kind |-> kind]
            /\ IF kind = "abort"
                 THEN /\ rPc' = "rethrown"
                      /\ UNCHANGED <<rBroke, rK>>
                 ELSE IF rOpt.hasCodes /\ kind = "unlisted"
                 THEN /\ rBroke' = "code"
                      /\ RetryThrowFinal
                 ELSE /\ rPc' = "onError"
                      /\ UNCHANGED <<rBroke, rK>>
  /\ UNCHANGED <<rOpt, rMaxRetry, rAttempt, rCalls, rDelays, rOnErrorCalls>>

\* The catch block without `if (isAbortError(err)) throw err`.
RetryOpSettlesAbortRetried(kind) ==
  /\ rPc = "op"
  /\ IF rCalls > rOpt.failN
       THEN /\ rPc' = "returned"
            /\ UNCHANGED <<rLastError, rBroke, rK>>
       ELSE /\ rLastError' = [attempt |-> rAttempt, kind |-> kind]
            /\ IF rOpt.hasCodes /\ kind \in {"unlisted", "nocode"}
                 THEN /\ rBroke' = "code"
                      /\ RetryThrowFinal
                 ELSE /\ rPc' = "onError"
                      /\ UNCHANGED <<rBroke, rK>>
  /\ UNCHANGED <<rOpt, rMaxRetry, rAttempt, rCalls, rDelays, rOnErrorCalls>>

\* The awaited operation settles: it returns, or throws an error of `kind`.
\* catch: lastError = err; an AbortError is rethrown; with retryErrorCodes a
\* missing or unlisted code breaks out of the loop.
RetryOpSettles(kind) ==
  /\ rPc = "op"
  /\ IF rCalls > rOpt.failN
       THEN /\ rPc' = "returned"
            /\ UNCHANGED <<rLastError, rBroke, rK>>
       ELSE /\ rLastError' = [attempt |-> rAttempt, kind |-> kind]
            /\ IF kind = "abort"
                 THEN /\ rPc' = "rethrown"
                      /\ UNCHANGED <<rBroke, rK>>
                 ELSE IF rOpt.hasCodes /\ kind \in {"unlisted", "nocode"}
                 THEN /\ rBroke' = "code"
                      /\ RetryThrowFinal
                 ELSE /\ rPc' = "onError"
                      /\ UNCHANGED <<rBroke, rK>>
  /\ UNCHANGED <<rOpt, rMaxRetry, rAttempt, rCalls, rDelays, rOnErrorCalls>>

\* The catch block without the `break` on STOP: the answer is noted, the
\* loop goes on.
RetryAfterErrorNoBreak(stop) ==
  /\ rPc = "onError"
  /\ stop => rOpt.hasOnError
  /\ rOnErrorCalls' = IF rOpt.hasOnError THEN rOnErrorCalls + 1 ELSE rOnErrorCalls
  /\ rBroke' = IF stop THEN "stop" ELSE rBroke
  /\ IF rAttempt < rMaxRetry
       THEN /\ rPc' = "delay"
            /\ rDelays' = rDelays + 1
            /\ UNCHANGED <<rAttempt, rK>>
       ELSE /\ rPc' = "loop"
            /\ rAttempt' = rAttempt + 1
            /\ UNCHANGED <<rDelays, rK>>
  /\ UNCHANGED <<rOpt, rMaxRetry, rCalls, rLastError>>

\* if ((await onError?.(attempt, err)) == RetryAction.STOP) break
\* if (attempt < maxRetry) await delay, then attempt++
RetryAfterError(stop) ==
  /\ rPc = "onError"
  /\ stop => rOpt.hasOnError
  /\ rOnErrorCalls' = IF rOpt.hasOnError THEN rOnErrorCalls + 1 ELSE rOnErrorCalls
  /\ IF stop
       THEN /\ rBroke' = "stop"
            /\ RetryThrowFinal
            /\ UNCHANGED <<rAttempt, rDelays>>
       ELSE IF rAttempt < rMaxRetry
       THEN /\ rPc' = "delay"
            /\ rDelays' = rDelays + 1
            /\ UNCHANGED <<rAttempt, rBroke, rK>>
       ELSE /\ rPc' = "loop"
            /\ rAttempt' = rAttempt + 1
            /\ UNCHANGED <<rBroke, rDelays, rK>>
  /\ UNCHANGED <<rOpt, rMaxRetry, rCalls, rLastError>>

\* The backoff timer fires; the loop's attempt++ runs.
RetryDelayElapsed ==
  /\ rPc = "delay"
  /\ rPc' = "loop"
  /\ rAttempt' = rAttempt + 1
  /\ UNCHANGED <<rOpt, rMaxRetry, rCalls, rLastError, rBroke, rDelays, rOnErrorCalls, rK>>

RetryInitState ==
  /\ rMaxRetry = CoerceMaxRetry(rOpt)
  /\ rAttempt = 1
  /\ rPc = "loop"
  /\ rCalls = 0
  /\ rLastError = [attempt |-> 0, kind |-> "none"]
  /\ rBroke = "none"
  /\ rDelays = 0
  /\ rOnErrorCalls = 0
  /\ rK = 0

(***************************************************************************)
(*                          FileRotator.rotate                             *)
(***************************************************************************)
MaxRotCalls == 3     \* rotate() calls in one run
MaxFilesArg == 1     \* largest opts.maxFiles tried

RotCalls == 1..MaxRotCalls

RotOptions ==
  [compress : BOOLEAN, hasMaxFiles : {TRUE}, maxFiles : 0..MaxFilesArg]
  \cup [compress : BOOLEAN, hasMaxFiles : {FALSE}, maxFiles : {0}]

\* A call that is between its closeStream() and its finally block.
RotInBody(c) == rotCall[c].pc \in {"close", "rename", "compress", "prune"}

RotBodies == {c \in RotCalls : RotInBody(c)}

\* The call whose rotation is in flight, 0 when there is none.
RotInFlight == IF RotBodies = {} THEN 0 ELSE CHOOSE c \in RotBodies : TRUE

\* Mutant: openStream() at the end of the try block instead of in finally.
RotFinallyOpenInTry(c, rec, result, rejected, openOk) ==
  /\ rotCall' = [rotCall EXCEPT ![c] =
       [rec EXCEPT !.openN = IF rejected THEN @ ELSE @ + 1,
                    !.pc = IF rejected \/ ~openOk THEN "failed" ELSE "done",
                    !.result = IF rejected \/ ~openOk THEN "none" ELSE result]]
  /\ rotIsRotating' = FALSE
  /\ rotPromise' = 0
  /\ rotResolved' = rotResolved \cup {c}

\* finally { openStream(); isRotating = false; rotationPromise = undefined;
\* resolve() }, after which the call returns `result` or rejects.  When
\* openStream() throws, the rest of the block does not run and the call
\* rejects with that error.
RotFinally(c, rec, result, rejected, openOk) ==
  /\ rotCall' = [rotCall EXCEPT ![c] =
       [rec EXCEPT !.openN = @ + 1,
                    !.pc = IF rejected \/ ~openOk THEN "failed" ELSE "done",
                    !.result = IF rejected \/ ~openOk THEN "none" ELSE result]]
  /\ IF openOk
       THEN /\ rotIsRotating' = FALSE
            /\ rotPromise' = 0
            /\ rotResolved' = rotResolved \cup {c}
       ELSE UNCHANGED <<rotIsRotating, rotPromise, rotResolved>>

\* Mutant: rotate() without the isRotating guard.
RotateCallUnguarded(c) ==
  /\ rotCall[c].pc = "idle"
  /\ rotIsRotating' = TRUE
  /\ rotPromise' = c
  /\ rotCall' = [rotCall EXCEPT ![c].pc = "close", ![c].closeN = @ + 1,
                                ![c].arrivedDuring = RotInFlight]
  /\ UNCHANGED <<rotOpts, rotResolved, rotErrors>>

\* rotate(): if (isRotating) { await rotationPromise; return false }
\* else isRotating = true, a new rotationPromise, and closeStream() is called.
RotateCall(c) ==
  /\ rotCall[c].pc = "idle"
  /\ IF rotIsRotating
       THEN /\ rotCall' = [rotCall EXCEPT ![c].pc = "wait", ![c].waited = TRUE,
                                          ![c].waitOn = rotPromise,
                                          ![c].arrivedDuring = RotInFlight]
            /\ UNCHANGED <<rotIsRotating, rotPromise>>
       ELSE /\ rotIsRotating' = TRUE
            /\ rotPromise' = c
            /\ rotCall' = [rotCall EXCEPT ![c].pc = "close", ![c].closeN = @ + 1,
                                          ![c].arrivedDuring = RotInFlight]
  /\ UNCHANGED <<rotOpts, rotResolved, rotErrors>>

\* await this.rotationPromise resumes once the promise is resolved (at once
\* when the field is undefined); the call returns false.
RotWaiterResumes(c) ==
  /\ rotCall[c].pc = "wait"
  /\ rotCall[c].waitOn = 0 \/ rotCall[c].waitOn \in rotResolved
  /\ rotCall' = [rotCall EXCEPT ![c].pc = "done", ![c].result = "false"]
  /\ UNCHANGED <<rotOpts, rotIsRotating, rotPromise, rotResolved, rotErrors>>

\* closeStream() settles.  Resolved: doRotate() starts and renames the file
\* through withRetry.  Rejected: the finally block runs and rotate() rejects.
RotCloseSettles(c, ok, openOk) ==
  /\ rotCall[c].pc = "close"
  /\ IF ok
       THEN /\ rotCall' = [rotCall EXCEPT ![c].pc = "rename",
                                          ![c].did = @ \cup {"rename"}]
            /\ UNCHANGED <<rotIsRotating, rotPromise, rotResolved>>
       ELSE RotFinally(c, rotCall[c], "none", TRUE, openOk)
  /\ UNCHANGED <<rotOpts, rotErrors>>

\* What doRotate() does after a step: compress when compress && maxFiles != 0,
\* prune when maxFiles != null, else return true.
RotAfterRename(o) ==
  IF o.compress /\ ~(o.hasMaxFiles /\ o.maxFiles = 0) THEN "compress"
  ELSE IF o.hasMaxFiles THEN "prune"
  ELSE "return"

RotAfterCompress(o) == IF o.hasMaxFiles THEN "prune" ELSE "return"

RotStep(c, next, openOk) ==
  IF next = "return"
    THEN RotFinally(c, rotCall[c], "true", FALSE, openOk)
    ELSE /\ rotCall' = [rotCall EXCEPT ![c].pc = next, ![c].did = @ \cup {next}]
         /\ UNCHANGED <<rotIsRotating, rotPromise, rotResolved>>

\* The rename settles: on failure onError is called and doRotate returns false.
RotRenameSettles(c, ok, openOk) ==
  /\ rotCall[c].pc = "rename"
  /\ IF ok
       THEN /\ RotStep(c, RotAfterRename(rotOpts), openOk)
            /\ UNCHANGED rotErrors
       ELSE /\ RotFinally(c, rotCall[c], "false", FALSE, openOk)
            /\ rotErrors' = rotErrors + 1
  /\ UNCHANGED rotOpts

\* compress() settles: a failure is reported through onError and doRotate goes on.
RotCompressSettles(c, ok, openOk) ==
  /\ rotCall[c].pc = "compress"
  /\ RotStep(c, RotAfterCompress(rotOpts), openOk)
  /\ rotErrors' = IF ok THEN rotErrors ELSE rotErrors + 1
  /\ UNCHANGED rotOpts

\* retention() settles: a failure is reported through onError; doRotate returns true.
RotPruneSettles(c, ok, openOk) ==
  /\ rotCall[c].pc = "prune"
  /\ RotStep(c, "return", openOk)
  /\ rotErrors' = IF ok THEN rotErrors ELSE rotErrors + 1
  /\ UNCHANGED rotOpts

RotInitState ==
  /\ rotIsRotating = FALSE
  /\ rotPromise = 0
  /\ rotResolved = {}
  /\ rotCall = [c \in RotCalls |->
                  [pc |-> "idle", waited |-> FALSE, waitOn |-> 0, arrivedDuring |-> 0,
                   result |-> "none", closeN |-> 0, openN |-> 0, did |-> {}]]
  /\ rotErrors = 0

(***************************************************************************)
(*              Transport: lifecycle, sink, worker protocol                *)
(***************************************************************************)
MaxLogs == 1        \* log() calls in one run
MaxFlush == 2       \* flushAndWait() calls in one run
MaxClose == 1       \* close() calls in one run
MaxReclose == 1     \* close() calls made after an earlier close() has completed
MaxBatch == 2       \* largest options.batchSize tried
MaxSinkConc == 1    \* largest options.concurrency tried

Ctx == {"main", "rep"}
Entries == 1..MaxLogs
FlushIds == 1..MaxFlush
CloseIds == (MaxFlush + 1)..(MaxFlush + MaxClose)
RecloseIds == (MaxFlush + MaxClose + 1)..(MaxFlush + MaxClose + MaxReclose)
CallIds == FlushIds \cup CloseIds \cup RecloseIds
ReadyId == 0                       \* the runAsWorker() handshake
HsIds == {ReadyId} \cup CallIds
IsClose(c) == c \in CloseIds \cup RecloseIds

SinkOptions == [batchSize : 1..MaxBatch, concurrency : 1..MaxSinkConc]

Msg(type, id) == [type |-> type, id |-> id]

RECURSIVE SetToSeq(_)
SetToSeq(S) ==
  IF S = {} THEN <<>>
  ELSE LET x == CHOOSE y \in S : \A z \in S : y <= z
       IN <<x>> \o SetToSeq(S \ {x})

\* A Transport as constructed: open, counters at 0, empty buffer, an idle
\* AsyncJobQueue, the flush timer started.
NewTransport ==
  [isClosing |-> FALSE, isClosed |-> FALSE, logRequests |-> 0, logProcessed |-> 0,
   buffer |-> <<>>, jq |-> <<>>, jrun |-> {}, timerOn |-> TRUE, counted |-> {}]

NewCall == [pc |-> "idle", snapshot |-> 0, before |-> {}, result |-> FALSE]

NewHandshake == [inner |-> "none", outer |-> "none", listening |-> FALSE, skipped |-> FALSE]

\* flush(): while (buffer.length) { batch = buffer.splice(0, batchSize);
\* queue.enqueue(job) }, each enqueue followed by the queue's schedule().
RECURSIVE SinkFlush(_)
SinkFlush(t) ==
  IF Len(t.buffer) = 0 THEN t
  ELSE LET n == Min(sinkOpt.batchSize, Len(t.buffer))
           s == Schedule(Append(t.jq, SubSeq(t.buffer, 1, n)), Cardinality(t.jrun),
                         QueueCtor(sinkOpt.concurrency))
       IN SinkFlush([t EXCEPT !.buffer = SubSeq(t.buffer, n + 1, Len(t.buffer)),
                              !.jq = s.queue,
                              !.jrun = @ \cup SeqToSet(s.started)])

\* doLog(log): buffer.push(log); flush() once the buffer holds batchSize entries.
SinkDoLog(t, e) ==
  LET t1 == [t EXCEPT !.buffer = Append(@, e)]
  IN IF Len(t1.buffer) >= sinkOpt.batchSize THEN SinkFlush(t1) ELSE t1

\* The sink's queue is idle: drain() returns at once, or its waiters are notified.
SinkIdle(t) == t.jrun = {} /\ Len(t.jq) = 0

\* Mutant: checkTransportState() tests isClosed only.
TransportRejectsClosedOnly(t) ==
  IF t.isClosed THEN "closed" ELSE "none"

\* checkTransportState(): throws when closed, else when closing.
TransportRejects(t) ==
  IF t.isClosed THEN "closed"
  ELSE IF t.isClosing THEN "closing"
  ELSE "none"

\* log(log): logRequests++, checkTransportState(); with a worker the entry is
\* posted, else handed to doLog; a throw is caught: logProcessed++ and
\* handleError({err, log}).  Yields the transport, whether the entry is to be
\* posted, and the errors reported.
TransportLog(t, e, hasWorker) ==
  LET t1 == [t EXCEPT !.logRequests = @ + 1]
      why == TransportRejects(t1)
  IN IF why # "none"
       THEN [t |-> [t1 EXCEPT !.logProcessed = @ + 1, !.counted = @ \cup {e}],
             post |-> FALSE, reports |-> <<Msg(why, e)>>]
     ELSE IF hasWorker
       THEN [t |-> t1, post |-> TRUE, reports |-> <<>>]
     ELSE [t |-> SinkDoLog(t1, e), post |-> FALSE, reports |-> <<>>]

\* assertStats(): reports when logProcessed != logRequests or jobs wait in the queue.
StatsViolated(t) == t.logProcessed # t.logRequests \/ Len(t.jq) > 0

\* The waitUntil condition of a local flushAndWait() once its doFlushAndWait()
\* has returned: logProcessed >= the snapshot.
SnapshotReached(t, c) == t.logProcessed >= c.snapshot

\* Where a local call stands after flush() and queue.drain(): waiting for the
\* drain, finished, or sleeping until waitUntil's next poll.
AfterDoFlush(t, c) ==
  IF ~SinkIdle(t) THEN "draining"
  ELSE IF SnapshotReached(t, c) THEN "done"
  ELSE "sleep"

\* The calls of `calls` whose wait ended in this step (they were not done in `old`).
JustDone(old, calls) == {c \in CallIds : old[c].pc # "done" /\ calls[c].pc = "done"}

\* Mutant: the replica posts its reply when it receives the command.
AfterLocalWaitRepliesAtOnce(t, old, calls) ==
  LET closes == {c \in JustDone(old, calls) : IsClose(c)}
      begun == {c \in CallIds : old[c].pc = "idle" /\ calls[c].pc # "idle"}
  IN [t |-> IF closes = {} THEN t
            ELSE [t EXCEPT !.timerOn = FALSE, !.isClosed = TRUE],
      reports |-> IF closes # {} /\ StatsViolated(t)
                    THEN [i \in 1..Cardinality(closes) |-> Msg("stats", 0)] ELSE <<>>,
      replies |-> [i \in 1..Cardinality(begun) |->
                     LET c == SetToSeq(begun)[i]
                     IN Msg(IF IsClose(c) THEN "closed" ELSE "drained", 0)]]

\* What follows the end of a local wait.  A close() goes on with doClose()
\* (the timer stops), assertStats() and isClosed = true; in the replica each
\* finished call posts its reply.  Yields the transport, the errors reported
\* and the replies.
AfterLocalWait(t, old, calls) ==
  LET closes == {c \in JustDone(old, calls) : IsClose(c)}
  IN [t |-> IF closes = {} THEN t
            ELSE [t EXCEPT !.timerOn = FALSE, !.isClosed = TRUE],
      reports |-> IF closes # {} /\ StatsViolated(t)
                    THEN [i \in 1..Cardinality(closes) |-> Msg("stats", 0)] ELSE <<>>,
      replies |-> [i \in 1..Cardinality(JustDone(old, calls)) |->
                     LET c == SetToSeq(JustDone(old, calls))[i]
                     IN Msg(IF IsClose(c) THEN "closed" ELSE "drained", 0)]]

\* handleError(): inside the worker the error is posted to the parent with
\* the WORKER_ERROR: prefix, else it is handed to options.onError.
ErrorMsgs(reports) == [i \in 1..Len(reports) |-> Msg("error", reports[i].id)]

\* The step of context ctx ends with transport t and calls `calls`; its
\* errors and, in the replica, its replies go out.
Commit(ctx, t, old, calls, reports) ==
  LET a == AfterLocalWait(t, old, calls)
  IN /\ tr' = [tr EXCEPT ![ctx] = a.t]
     /\ call' = [call EXCEPT ![ctx] = calls]
     /\ IF ctx = "main"
          THEN /\ errs' = errs \cup SeqToSet(reports \o a.reports)
               /\ UNCHANGED toMain
          ELSE /\ toMain' = toMain \o ErrorMsgs(reports \o a.reports) \o a.replies
               /\ UNCHANGED errs

\* postMessage(m): the worker thread queues m while it is alive.
PostToWorker(m) ==
  toWorker' = IF wstate \in {"starting", "ready"} THEN Append(toWorker, m) ELSE toWorker

\* workerHandshake(command, expectedReply): the listeners are registered,
\* the command is posted, withTimeout() wraps the promise.
HandshakeStart(h, cmd) ==
  /\ hs' = [hs EXCEPT ![h] = [NewHandshake EXCEPT !.inner = "pending", !.outer = "pending",
                                      !.listening = TRUE]]
  /\ PostToWorker(Msg(cmd, h))

\* Mutant: onMessage without the WORKER_ERROR: prefix test.
HsOnMessageNoPrefixTest(h, expected, m) ==
  IF m.type = expected
    THEN [h EXCEPT !.inner = "resolved", !.listening = FALSE,
                    !.outer = IF @ = "pending" THEN "resolved" ELSE @]
    ELSE [h EXCEPT !.inner = "rejected", !.listening = FALSE,
                    !.outer = IF @ = "pending" THEN "rejected" ELSE @]

\* Mutant: onMessage resolves on every message that is not error-tagged.
HsOnMessageAnyReply(h, expected, m) ==
  IF m.type = "error" THEN [h EXCEPT !.skipped = TRUE]
  ELSE [h EXCEPT !.inner = "resolved", !.listening = FALSE,
                  !.outer = IF @ = "pending" THEN "resolved" ELSE @]

\* onMessage(msg) of a handshake: a WORKER_ERROR: message is swallowed; the
\* expected reply cleans up and resolves; any other message cleans up and
\* rejects.  withTimeout() passes the outcome on unless its timer has fired.
HsOnMessage(h, expected, m) ==
  IF m.type = "error" THEN [h EXCEPT !.skipped = TRUE]
  ELSE IF m.type = expected
    THEN [h EXCEPT !.inner = "resolved", !.listening = FALSE,
                    !.outer = IF @ = "pending" THEN "resolved" ELSE @]
    ELSE [h EXCEPT !.inner = "rejected", !.listening = FALSE,
                    !.outer = IF @ = "pending" THEN "rejected" ELSE @]

\* onError(err) / onExit(code): cleanup() and reject.
HsOnFail(h) ==
  [h EXCEPT !.inner = "rejected", !.listening = FALSE,
             !.outer = IF @ = "pending" THEN "rejected" ELSE @]

\* The reply a handshake waits for.
HsExpected(h) ==
  IF h = ReadyId THEN "ready" ELSE IF IsClose(h) THEN "closed" ELSE "drained"

\* closeWorker() that catches the handshake's failure and terminates anyway.
CallsAfterHsCloseIgnoresFailure(hsNew) ==
  [c \in CallIds |->
     IF hs[c].outer = "pending" /\ hsNew[c].outer = "resolved"
       THEN [call.main[c] EXCEPT
               !.pc = IF IsClose(c) THEN "terminating" ELSE "done",
               !.result = tr.main.logProcessed >= call.main[c].snapshot]
     ELSE IF hs[c].outer = "pending" /\ hsNew[c].outer = "rejected"
       THEN [call.main[c] EXCEPT !.pc = IF IsClose(c) THEN "terminating" ELSE "rejected"]
     ELSE call.main[c]]

\* The awaiting calls go on once their handshake's withTimeout() promise has
\* settled: flushAndWait() returns logProcessed >= its snapshot, close() goes
\* on to worker.terminate(), runAsWorker() returns; a rejection rejects the call.
CallsAfterHs(hsNew) ==
  [c \in CallIds |->
     IF hs[c].outer = "pending" /\ hsNew[c].outer = "resolved"
       THEN [call.main[c] EXCEPT
               !.pc = IF IsClose(c) THEN "terminating" ELSE "done",
               !.result = tr.main.logProcessed >= call.main[c].snapshot]
     ELSE IF hs[c].outer = "pending" /\ hsNew[c].outer = "rejected"
       THEN [call.main[c] EXCEPT !.pc = "rejected"]
     ELSE call.main[c]]

PromoteAfterHs(hsNew) ==
  IF hs[ReadyId].outer = "pending" /\ hsNew[ReadyId].outer = "resolved" THEN "done"
  ELSE IF hs[ReadyId].outer = "pending" /\ hsNew[ReadyId].outer = "rejected" THEN "rejected"
  ELSE promote

HsSettle(hsNew) ==
  /\ hs' = hsNew
  /\ call' = [call EXCEPT !.main = CallsAfterHs(hsNew)]
  /\ promote' = PromoteAfterHs(hsNew)

\* A local flushAndWait() starts (also the one inside close()): the snapshot
\* is taken, doFlushAndWait() flushes and waits for the queue.
StartLocalWait(ctx, c, t) ==
  LET c0 == [NewCall EXCEPT !.snapshot = t.logRequests,
                            !.before = IF ctx = "main" THEN 1..t.logRequests ELSE {}]
      t1 == SinkFlush(t)
      c1 == [c0 EXCEPT !.pc = AfterDoFlush(t1, c0), !.result = TRUE]
  IN Commit(ctx, t1, call[ctx], [call[ctx] EXCEPT ![c] = c1], <<>>)

\* ---- calls of the embedder on the main transport ----

\* log(entry)
Log ==
  /\ tr.main.logRequests < MaxLogs
  /\ LET e == tr.main.logRequests + 1
         r == TransportLog(tr.main, e, worker = "set")
     IN /\ IF r.post THEN PostToWorker(Msg("log", e)) ELSE UNCHANGED toWorker
        /\ Commit("main", r.t, call.main, call.main, r.reports)
  /\ UNCHANGED <<sinkOpt, worker, wstate, hs, promote>>

\* flushAndWait(): const logRequests = this.logRequests; with a worker the
\* drain handshake, else waitUntil(doFlushAndWait; logProcessed >= logRequests).
FlushAndWait(f) ==
  /\ call.main[f].pc = "idle"
  /\ IF worker = "set"
       THEN /\ HandshakeStart(f, "drain")
            /\ call' = [call EXCEPT !.main[f] =
                 [NewCall EXCEPT !.pc = "handshake", !.snapshot = tr.main.logRequests,
                                 !.before = 1..tr.main.logRequests]]
            /\ UNCHANGED <<tr, errs, toMain>>
       ELSE /\ StartLocalWait("main", f, tr.main)
            /\ UNCHANGED <<hs, toWorker>>
  /\ UNCHANGED <<sinkOpt, worker, wstate, promote>>

\* Mutant: close() that does not set isClosing.
CloseStartForgetsFlag(t) == t

\* close(): this.isClosing = true
CloseStart(t) == [t EXCEPT !.isClosing = TRUE]

\* close(): with a worker closeWorker() (the close handshake), else
\* flushAndWait(), doClose(), assertStats(), isClosed = true.
Close(c) ==
  /\ call.main[c].pc = "idle"
  /\ IF worker = "set"
       THEN /\ HandshakeStart(c, "close")
            /\ tr' = [tr EXCEPT !.main = CloseStart(tr.main)]
            /\ call' = [call EXCEPT !.main[c] = [NewCall EXCEPT !.pc = "handshake"]]
            /\ UNCHANGED <<errs, toMain>>
       ELSE /\ StartLocalWait("main", c, CloseStart(tr.main))
            /\ UNCHANGED <<hs, toWorker>>
  /\ UNCHANGED <<sinkOpt, worker, wstate, promote>>

\* close() called again after an earlier close() has returned.
Reclose(c) ==
  /\ \E d \in CloseIds : call.main[d].pc = "done"
  /\ Close(c)

\* runAsWorker(): if (this.worker) return; else await createWorker()
RunAsWorker ==
  /\ promote = "idle"
  /\ promote' = IF worker = "set" THEN "done" ELSE "creating"
  /\ UNCHANGED <<sinkOpt, tr, worker, wstate, toWorker, toMain, hs, call, errs>>

\* createWorker() settles: this.worker is set, the WORKER_ERROR listener is
\* registered and the ready handshake posts the serialized options; or
\* createWorker() threw and runAsWorker() rejects.
WorkerCreated(ok) ==
  /\ promote = "creating"
  /\ IF ok
       THEN /\ worker' = "set"
            /\ wstate' = "starting"
            /\ promote' = "handshake"
            /\ hs' = [hs EXCEPT ![ReadyId] =
                        [NewHandshake EXCEPT !.inner = "pending", !.outer = "pending",
                                      !.listening = TRUE]]
            /\ toWorker' = <<Msg("init", 0)>>
       ELSE /\ promote' = "rejected"
            /\ UNCHANGED <<worker, wstate, hs, toWorker>>
  /\ UNCHANGED <<sinkOpt, tr, toMain, call, errs>>

\* ---- events in a context that runs the sink locally ----

Alive(ctx) == ctx = "rep" => wstate = "ready"

\* A send job of the sink ends.  "ok"/"failed": the withRetry chain settled
\* and its finally block adds the batch to logProcessed; a failed attempt was
\* reported through onError and the final rejection through the catch (one
\* attempt, retry.maxRetry = 1).  "prelude": sendBatch threw before
\* withRetry (format, URL, authenticator), so the finally block never ran.
\* Then the queue's finally: running--, schedule(), waiters notified when
\* idle, and each notified call evaluates its waitUntil condition.
JobEnds(ctx, b, how) ==
  /\ Alive(ctx)
  /\ b \in tr[ctx].jrun
  /\ LET t0 == tr[ctx]
         t1 == IF how = "prelude" THEN [t0 EXCEPT !.jrun = @ \ {b}]
               ELSE [t0 EXCEPT !.jrun = @ \ {b}, !.logProcessed = @ + Len(b),
                               !.counted = @ \cup SeqToSet(b)]
         s == Schedule(t1.jq, Cardinality(t1.jrun), QueueCtor(sinkOpt.concurrency))
         t2 == [t1 EXCEPT !.jq = s.queue, !.jrun = @ \cup SeqToSet(s.started)]
         calls == [c \in CallIds |->
                     IF call[ctx][c].pc = "draining" /\ SinkIdle(t2)
                       THEN [call[ctx][c] EXCEPT
                               !.pc = IF SnapshotReached(t2, call[ctx][c])
                                        THEN "done" ELSE "sleep"]
                       ELSE call[ctx][c]]
         reports == IF how = "failed" THEN <<Msg("attempt", 0), Msg("send", 0)>> ELSE <<>>
     IN Commit(ctx, t2, call[ctx], calls, reports)
  /\ UNCHANGED toWorker
  /\ UNCHANGED <<sinkOpt, worker, wstate, hs, promote>>

\* The flush timer fires: flush().
TimerFlush(ctx) ==
  /\ Alive(ctx)
  /\ tr[ctx].timerOn
  /\ Len(tr[ctx].buffer) > 0
  /\ Commit(ctx, SinkFlush(tr[ctx]), call[ctx], call[ctx], <<>>)
  /\ UNCHANGED <<sinkOpt, worker, wstate, toWorker, hs, promote>>

\* waitUntil's delay elapsed: the condition runs again.
Poll(ctx, c) ==
  /\ Alive(ctx)
  /\ call[ctx][c].pc = "sleep"
  /\ LET t1 == SinkFlush(tr[ctx])
         c1 == [call[ctx][c] EXCEPT !.pc = AfterDoFlush(t1, call[ctx][c])]
     IN Commit(ctx, t1, call[ctx], [call[ctx] EXCEPT ![c] = c1], <<>>)
  /\ UNCHANGED <<sinkOpt, worker, wstate, toWorker, hs, promote>>

\* ---- the worker thread ----

\* The worker handles its next message.  The first one is the options:
\* initWorker constructs the replica and posts 'ready'.  Afterwards
\* listenParent: an entry is logged, 'drain' starts flushAndWait() and
\* 'close' starts close(), each answered when it has settled.
WorkerReceive ==
  /\ wstate \in {"starting", "ready"}
  /\ Len(toWorker) > 0
  /\ toWorker' = Tail(toWorker)
  /\ LET m == Head(toWorker)
     IN IF m.type = "init"
          THEN /\ wstate' = "ready"
               /\ tr' = [tr EXCEPT !.rep = NewTransport]
               /\ toMain' = Append(toMain, Msg("ready", 0))
               /\ UNCHANGED <<call, errs>>
        ELSE /\ UNCHANGED wstate
             /\ IF m.type = "log"
                  THEN LET r == TransportLog(tr.rep, m.id, FALSE)
                       IN Commit("rep", r.t, call.rep, call.rep, r.reports)
                ELSE IF m.type = "drain"
                  THEN StartLocalWait("rep", m.id, tr.rep)
                ELSE StartLocalWait("rep", m.id, CloseStart(tr.rep))
  /\ UNCHANGED <<sinkOpt, worker, hs, promote>>

\* The worker emits 'error' (an uncaught exception): every listening
\* handshake rejects.  The thread is gone with its pending messages; 'exit'
\* follows.
WorkerError ==
  /\ wstate \in {"starting", "ready"}
  /\ wstate' = "errored"
  /\ HsSettle([h \in HsIds |-> IF hs[h].listening THEN HsOnFail(hs[h]) ELSE hs[h]])
  /\ toWorker' = <<>>
  /\ UNCHANGED <<sinkOpt, tr, worker, toMain, errs>>

\* The worker emits 'exit' (after an error, on its own, or because
\* terminate() was called): every listening handshake rejects.
WorkerExit ==
  /\ wstate \in {"starting", "ready", "errored"}
  /\ wstate' = "exited"
  /\ HsSettle([h \in HsIds |-> IF hs[h].listening THEN HsOnFail(hs[h]) ELSE hs[h]])
  /\ toWorker' = <<>>
  /\ UNCHANGED <<sinkOpt, tr, worker, toMain, errs>>

\* worker.terminate() was called: the thread exits.
Terminated ==
  /\ \E c \in CallIds : call.main[c].pc = "terminating"
  /\ WorkerExit

\* ---- events on the main side ----

\* Main handles the next message of the worker: the listener registered by
\* runAsWorker() hands a WORKER_ERROR: message to handleError; every
\* handshake that still listens runs its onMessage.
MainReceive ==
  /\ Len(toMain) > 0
  /\ toMain' = Tail(toMain)
  /\ LET m == Head(toMain)
     IN /\ errs' = IF m.type = "error" THEN errs \cup {Msg("worker", m.id)} ELSE errs
        /\ HsSettle([h \in HsIds |->
                       IF hs[h].listening THEN HsOnMessage(hs[h], HsExpected(h), m)
                       ELSE hs[h]])
  /\ UNCHANGED <<sinkOpt, tr, worker, wstate, toWorker>>

\* withTimeout's timer fires before the handshake settled: the awaiting call
\* rejects; the handshake's listeners stay registered.
HandshakeTimeout(h) ==
  /\ hs[h].outer = "pending"
  /\ HsSettle([hs EXCEPT ![h].outer = "rejected"])
  /\ UNCHANGED <<sinkOpt, tr, worker, wstate, toWorker, toMain, errs>>

\* closeWorker() after the handshake: await worker.terminate() returns once
\* the thread has exited; this.worker = undefined; close() sets isClosed.
CloseAfterTerminate(c) ==
  /\ call.main[c].pc = "terminating"
  /\ wstate = "exited"
  /\ worker' = "none"
  /\ tr' = [tr EXCEPT !.main.isClosed = TRUE]
  /\ call' = [call EXCEPT !.main[c].pc = "done"]
  /\ UNCHANGED <<sinkOpt, wstate, toWorker, toMain, hs, promote, errs>>

TransportInitState ==
  /\ tr = [x \in Ctx |-> NewTransport]
  /\ worker = "none"
  /\ wstate = "none"
  /\ toWorker = <<>>
  /\ toMain = <<>>
  /\ hs = [h \in HsIds |-> NewHandshake]
  /\ call = [x \in Ctx |-> [c \in CallIds |-> NewCall]]
  /\ promote = "idle"
  /\ errs = {}

(***************************************************************************)
(*                 Transport.runAsWorker, several calls                    *)
(***************************************************************************)
MaxPromote == 3     \* runAsWorker() calls in one run

PromoteCalls == 1..MaxPromote

\* if (this.worker) return
AlreadyOffloaded == pWorker # 0

\* runAsWorker() up to its first await: returns when this.worker is set,
\* else calls createWorker() and awaits it.
PromoteCall(k) ==
  /\ pCall[k] = "idle"
  /\ pCall' = [pCall EXCEPT ![k] = IF AlreadyOffloaded THEN "done" ELSE "creating"]
  /\ UNCHANGED <<pWorker, pCreated, pPosted>>

\* createWorker() has settled.  With a worker: this.worker = <the worker>,
\* the error listener is registered and workerHandshake posts the options
\* to this.worker, all in one synchronous run.  A rejection rejects the call.
PromoteCreated(k, ok) ==
  /\ pCall[k] = "creating"
  /\ IF ok
       THEN LET w == Cardinality(pCreated) + 1
            IN /\ pCreated' = pCreated \cup {w}
               /\ pWorker' = w
               /\ pPosted' = pPosted \cup {w}
               /\ pCall' = [pCall EXCEPT ![k] = "handshake"]
       ELSE /\ pCall' = [pCall EXCEPT ![k] = "rejected"]
            /\ UNCHANGED <<pWorker, pCreated, pPosted>>

\* The ready handshake settles: 'ready' came in, or it failed or timed out.
PromoteSettles(k, ok) ==
  /\ pCall[k] = "handshake"
  /\ pCall' = [pCall EXCEPT ![k] = IF ok THEN "done" ELSE "rejected"]
  /\ UNCHANGED <<pWorker, pCreated, pPosted>>

PromoteInitState ==
  /\ pWorker = 0
  /\ pCreated = {}
  /\ pPosted = {}
  /\ pCall = [k \in PromoteCalls |-> "idle"]

(***************************************************************************)
(*                  FileTransport with its FileRotator                     *)
(***************************************************************************)
MaxFLogs == 3       \* entries logged in one run
MaxFBatch == 2      \* largest options.batchSize tried
MaxSizeArg == 2     \* largest rotate.maxSize tried
FileConcurrency == 20

FEntries == 1..MaxFLogs

\* rotate: maxSize (0: not set), compress, maxFiles (hasMaxFiles FALSE: not set)
FileRotateOptions ==
  [maxSize : 1..MaxSizeArg, compress : BOOLEAN, hasMaxFiles : BOOLEAN, maxFiles : {1}]

FileOptions == [batchSize : 1..MaxFBatch, hasRotator : BOOLEAN, rotate : FileRotateOptions]

\* formatter.format(batch).length: every entry is serialized to one unit.
BodyLength(b) == Len(b)

\* shouldRotate with the size test `currentSize > maxSize`.
ShouldRotateAbove(hasInterval, maxSize, currentKey, key, size) ==
  IF hasInterval /\ key # currentKey
    THEN [result |-> TRUE, key |-> key]
    ELSE [result |-> maxSize # 0 /\ size > maxSize, key |-> currentKey]

\* shouldRotate(currentSize): [result, the key stored afterwards]
ShouldRotate(hasInterval, maxSize, currentKey, key, size) ==
  IF hasInterval /\ key # currentKey
    THEN [result |-> TRUE, key |-> key]
    ELSE [result |-> maxSize # 0 /\ size >= maxSize, key |-> currentKey]

\* retention over the rotated files in name order (the live file is absent
\* while doRotate runs): the first candidates.length - maxFiles are unlinked.
PruneRotated(files, maxFiles) ==
  IF Len(files) > maxFiles THEN SubSeq(files, Len(files) - maxFiles + 1, Len(files))
  ELSE files

\* sent: the batches handed to queue.enqueue() so far, in the order of the calls.
NewFileTransport ==
  [buffer |-> <<>>, isOpen |-> FALSE, stream |-> FALSE, currentSize |-> 0,
   isRotating |-> FALSE, logRequests |-> 0, logProcessed |-> 0, jq |-> <<>>, jrun |-> {},
   sent |-> <<>>]

\* openStream(): a new stream; currentSize is the size of the file, 0 when
\* it does not exist.
OpenStream(t, live) ==
  [t EXCEPT !.stream = TRUE, !.currentSize = Len(live), !.isOpen = TRUE]

\* sendBody(body, length): currentSize grows and the write job is enqueued.
FSendBody(t, b) ==
  LET s == Schedule(Append(t.jq, b), Cardinality(t.jrun), QueueCtor(FileConcurrency))
  IN [t EXCEPT !.currentSize = @ + BodyLength(b), !.jq = s.queue,
               !.jrun = @ \cup SeqToSet(s.started), !.sent = Append(@, b)]

\* this.format(batch) throws when the formatter cannot serialize an entry.
FormatThrows(batch) == SeqToSet(batch) \cap fBad # {}

\* The while loop of flush(): batch after batch is spliced off the buffer and
\* sent, until a batch asks for a rotation: isRotating is set, the batch is
\* kept for the rotation's finally block and flush() returns.  A batch whose
\* format() throws is handed to handleError by the catch inside the loop, and
\* the loop goes on.  nerr: the handleError calls made.
RECURSIVE FFlushLoop(_)
FFlushLoop(t) ==
  IF t.buffer = <<>> THEN [t |-> t, trigger |-> <<>>, nerr |-> 0]
  ELSE LET n == Min(fOpt.batchSize, Len(t.buffer))
           batch == SubSeq(t.buffer, 1, n)
           t1 == [t EXCEPT !.buffer = SubSeq(t.buffer, n + 1, Len(t.buffer))]
       IN IF FormatThrows(batch)
            THEN LET r == FFlushLoop(t1) IN [r EXCEPT !.nerr = @ + 1]
          ELSE IF /\ t.currentSize # 0
                  /\ fOpt.hasRotator
                  /\ ShouldRotate(FALSE, fOpt.rotate.maxSize, 0, 0,
                                  t.currentSize + BodyLength(batch)).result
            THEN [t |-> [t1 EXCEPT !.isRotating = TRUE], trigger |-> batch, nerr |-> 0]
            ELSE FFlushLoop(FSendBody(t1, batch))

\* Mutant: flush() without the isRotating guard.
FFlushWhileRotating(t, live) ==
  FFlushLoop(IF t.isOpen THEN t ELSE OpenStream(t, live))

\* flush(): nothing while a rotation is under way; the stream is opened when
\* it is not open.  (isFlushing is false whenever flush() is entered from
\* the event loop: every path resets it before flush() returns.)
FFlush(t, live) ==
  IF t.isRotating THEN [t |-> t, trigger |-> <<>>, nerr |-> 0]
  ELSE FFlushLoop(IF t.isOpen THEN t ELSE OpenStream(t, live))

FIdle(t) == t.jq = <<>> /\ t.jrun = {}

\* Mutant: rotator.rotate(...) called without awaiting queue.drain().
FRotAfterNoDrain(r, rot) ==
  IF r.trigger # <<>>
    THEN [pc |-> "closing", batch |-> r.trigger, n |-> rot.n + 1]
    ELSE rot

\* queue.drain().then(() => rotator.rotate(...)): rotate() is called, and
\* with it closeStream(), once the queue is idle.
FRotAfter(r, rot) ==
  IF r.trigger # <<>>
    THEN [pc |-> IF FIdle(r.t) THEN "closing" ELSE "draining", batch |-> r.trigger,
          n |-> IF FIdle(r.t) THEN rot.n + 1 ELSE rot.n]
  ELSE IF rot.pc = "draining" /\ FIdle(r.t)
    THEN [rot EXCEPT !.pc = "closing", !.n = @ + 1]
  ELSE rot

\* The flushAndWait() call after queue.drain() resolved: waitUntil's
\* condition logProcessed >= logRequests.
FWaitAfter(t, w) ==
  IF w.pc = "draining" /\ FIdle(t)
    THEN [w EXCEPT !.pc = IF t.logProcessed >= w.snapshot THEN "idle" ELSE "sleep"]
    ELSE w

\* All earlier entries are flushed: nothing buffered, queued or rotating.
FQuiescent ==
  /\ ft.buffer = <<>>
  /\ FIdle(ft)
  /\ fRot.pc = "none"
  /\ ft.logProcessed = ft.logRequests

\* Mutant: logProcessed is raised in then() instead of finally().
WriteCountedOnSuccess(ok, n) == IF ok THEN n ELSE 0

\* writeBody(body).finally(() => { this.logProcessed += length })
WriteCounted(ok, n) == n

\* log(entry) on an open transport: logRequests++, doLog buffers the entry
\* and flushes when the buffer has reached batchSize.
FLog ==
  /\ ft.logRequests < MaxFLogs
  /\ LET e == ft.logRequests + 1
         t0 == [ft EXCEPT !.logRequests = e, !.buffer = Append(@, e)]
         r == IF Len(t0.buffer) >= fOpt.batchSize THEN FFlush(t0, fLive)
              ELSE [t |-> t0, trigger |-> <<>>, nerr |-> 0]
     IN /\ ft' = r.t
        /\ fRot' = FRotAfter(r, fRot)
        /\ fErrs' = fErrs + r.nerr
  /\ fStrict' = (fStrict /\ FQuiescent)
  /\ UNCHANGED <<fOpt, fLive, fRotated, fWait>>

\* log(entry) whose flush() throws before the loop, in ensureDir() or
\* openStream(): the entry is in the buffer, flush()'s finally block resets
\* isFlushing, and the catch block of log() raises logProcessed and reports.
\* (A flush that throws there when started by the timer or by flushAndWait()
\* throws to its caller and changes nothing.)
FLogOpenFails ==
  /\ ft.logRequests < MaxFLogs
  /\ ~ft.isOpen /\ ~ft.isRotating
  /\ Len(ft.buffer) + 1 >= fOpt.batchSize
  /\ ft' = [ft EXCEPT !.logRequests = @ + 1, !.buffer = Append(@, ft.logRequests + 1),
                      !.logProcessed = @ + 1]
  /\ fErrs' = fErrs + 1
  /\ fStrict' = (fStrict /\ FQuiescent)
  /\ UNCHANGED <<fOpt, fLive, fRotated, fRot, fWait>>

\* The flush timer fires.
FTimerFlush ==
  /\ ~ft.isRotating
  /\ ft.buffer # <<>> \/ ~ft.isOpen
  /\ LET r == FFlush(ft, fLive)
     IN /\ ft' = r.t
        /\ fRot' = FRotAfter(r, fRot)
        /\ fErrs' = fErrs + r.nerr
  /\ UNCHANGED <<fOpt, fLive, fRotated, fWait, fStrict>>

\* One round of waitUntil's condition: doFlushAndWait() flushes and awaits
\* queue.drain().
FWaitRound(snapshot) ==
  LET r == FFlush(ft, fLive)
  IN /\ ft' = r.t
     /\ fRot' = FRotAfter(r, fRot)
     /\ fErrs' = fErrs + r.nerr
     /\ fWait' = FWaitAfter(r.t, [pc |-> "draining", snapshot |-> snapshot])

\* flushAndWait(): the snapshot of logRequests and the first round.
FFlushAndWait ==
  /\ fWait.pc = "idle"
  /\ FWaitRound(ft.logRequests)
  /\ UNCHANGED <<fOpt, fLive, fRotated, fStrict>>

\* waitUntil's delay elapsed: the next round.
FPoll ==
  /\ fWait.pc = "sleep"
  /\ FWaitRound(fWait.snapshot)
  /\ UNCHANGED <<fOpt, fLive, fRotated, fStrict>>

\* A write job ends: the body went to the stream, or withRetry gave up, each
\* failed attempt reported through onError and the final rejection through
\* the catch (one attempt, retry.maxRetry = 1).  The job's finally block
\* raises logProcessed; the queue's finally block starts the next jobs and,
\* when idle, resolves the drain() calls of a pending rotation and of
\* flushAndWait().
FJobEnds(b, ok) ==
  /\ b \in ft.jrun
  /\ LET t1 == [ft EXCEPT !.jrun = @ \ {b},
                          !.logProcessed = @ + WriteCounted(ok, Len(b))]
         s == Schedule(t1.jq, Cardinality(t1.jrun), QueueCtor(FileConcurrency))
         t2 == [t1 EXCEPT !.jq = s.queue, !.jrun = @ \cup SeqToSet(s.started)]
     IN /\ ft' = t2
        /\ fRot' = FRotAfter([t |-> t2, trigger |-> <<>>, nerr |-> 0], fRot)
        /\ fWait' = FWaitAfter(t2, fWait)
  /\ fLive' = IF ok THEN fLive \o b ELSE fLive
  /\ fErrs' = IF ok THEN fErrs ELSE fErrs + 2
  /\ UNCHANGED <<fOpt, fRotated, fStrict>>

\* Mutant: the rotation's finally block calls flush() before it sends the
\* batch that triggered the rotation.
FRotationEndsFlushFirst(live, nerr) ==
  LET t1 == OpenStream(ft, live)
      t2 == [t1 EXCEPT !.currentSize = 0, !.isRotating = FALSE]
      r == FFlush(t2, live)
      t3 == FSendBody(r.t, fRot.batch)
  IN /\ ft' = t3
     /\ fRot' = FRotAfter([r EXCEPT !.t = t3], [fRot EXCEPT !.pc = "none", !.batch = <<>>])
     /\ fErrs' = fErrs + nerr + r.nerr

\* rotate() settles: its finally block has called openStream(); then the
\* finally block of flush(): sendBody(body) for the batch that triggered the
\* rotation, currentSize = 0, isRotating = false, flush().
FRotationEnds(live, nerr) ==
  LET t1 == OpenStream(ft, live)
      t2 == FSendBody(t1, fRot.batch)
      t3 == [t2 EXCEPT !.currentSize = 0, !.isRotating = FALSE]
      r == FFlush(t3, live)
  IN /\ ft' = r.t
     /\ fRot' = FRotAfter(r, [fRot EXCEPT !.pc = "none", !.batch = <<>>])
     /\ fErrs' = fErrs + nerr + r.nerr

FRotStep(next) ==
  IF next = "return" THEN FRotationEnds(fLive', 0)
  ELSE /\ fRot' = [fRot EXCEPT !.pc = next]
       /\ UNCHANGED <<ft, fErrs>>

\* closeStream() settles.  Resolved: the stream is gone and doRotate()
\* renames the file.  Rejected: rotate() rejects and the error is reported.
FCloseSettles(ok) ==
  /\ fRot.pc = "closing"
  /\ IF ok
       THEN /\ ft' = [ft EXCEPT !.stream = FALSE, !.isOpen = FALSE]
            /\ fRot' = [fRot EXCEPT !.pc = "rename"]
            /\ UNCHANGED fErrs
       ELSE FRotationEnds(fLive, 1)
  /\ UNCHANGED <<fOpt, fLive, fRotated, fWait, fStrict>>

\* The rename settles: the live file's content is now a rotated file, or
\* the failure is reported and doRotate() returns false.
FRenameSettles(ok) ==
  /\ fRot.pc = "rename"
  /\ IF ok
       THEN /\ fRotated' = Append(fRotated, [content |-> fLive, gz |-> FALSE])
            /\ fLive' = <<>>
            /\ FRotStep(RotAfterRename(fOpt.rotate))
       ELSE /\ UNCHANGED <<fRotated, fLive>>
            /\ FRotationEnds(fLive, 1)
  /\ UNCHANGED <<fOpt, fWait, fStrict>>

\* compress() settles: the rotated file is gzipped, or the failure is
\* reported; doRotate() goes on.
FCompressSettles(ok) ==
  /\ fRot.pc = "compress"
  /\ fRotated' = IF ok THEN [fRotated EXCEPT ![Len(fRotated)].gz = TRUE] ELSE fRotated
  /\ fLive' = fLive
  /\ IF RotAfterCompress(fOpt.rotate) = "return"
       THEN FRotationEnds(fLive, IF ok THEN 0 ELSE 1)
       ELSE /\ fRot' = [fRot EXCEPT !.pc = "prune"]
            /\ fErrs' = IF ok THEN fErrs ELSE fErrs + 1
            /\ UNCHANGED ft
  /\ UNCHANGED <<fOpt, fWait, fStrict>>

\* retention() settles: the excess rotated files are unlinked, or the
\* failure is reported; doRotate() returns true.
FPruneSettles(ok) ==
  /\ fRot.pc = "prune"
  /\ fRotated' = IF ok THEN PruneRotated(fRotated, fOpt.rotate.maxFiles) ELSE fRotated
  /\ fLive' = fLive
  /\ FRotationEnds(fLive, IF ok THEN 0 ELSE 1)
  /\ UNCHANGED <<fOpt, fWait, fStrict>>

\* ---- close() of a local FileTransport ----

\* snapshot: logRequests when close() was invoked; diag: the diagnostics of
\* assertStats().
NewFileClose ==
  [pc |-> "idle", isClosing |-> FALSE, isClosed |-> FALSE, timerOn |-> TRUE,
   snapshot |-> 0, diag |-> 0]

\* assertStats() of the file transport.
FStatsViolated(t) == t.logProcessed # t.logRequests \/ Len(t.jq) > 0

\* close() after doClose(): assertStats(), isClosed = true.
FCloseFinish(c, t) ==
  [c EXCEPT !.pc = "done", !.isClosed = TRUE,
            !.diag = IF FStatsViolated(t) THEN @ + 1 ELSE @]

\* close() once its flushAndWait() has returned: doClose() stops the flush
\* timer and calls closeStream(), which ends the stream and waits for it to
\* finish, or returns at once when there is no stream.
FCloseAfterWait(c, w, t) ==
  IF c.pc = "waiting" /\ w.pc = "idle"
    THEN IF t.stream THEN [c EXCEPT !.pc = "ending", !.timerOn = FALSE]
         ELSE FCloseFinish([c EXCEPT !.timerOn = FALSE], t)
    ELSE c

FCloseFollows == fClose' = FCloseAfterWait(fClose, fWait', ft')

\* log(entry) of a transport that may be closing: checkTransportState()
\* throws once close() was invoked, the catch block counts and reports.
FLogOrReject ==
  IF fClose.isClosing
    THEN /\ ft.logRequests < MaxFLogs
         /\ ft' = [ft EXCEPT !.logRequests = @ + 1, !.logProcessed = @ + 1]
         /\ fErrs' = fErrs + 1
         /\ UNCHANGED <<fOpt, fLive, fRotated, fRot, fWait, fStrict, fClose>>
    ELSE FLog /\ UNCHANGED fClose

\* close(): isClosing = true, then flushAndWait().
FClose ==
  /\ fClose.pc = "idle"
  /\ fWait.pc = "idle"
  /\ FWaitRound(ft.logRequests)
  /\ fClose' = FCloseAfterWait([fClose EXCEPT !.pc = "waiting", !.isClosing = TRUE,
                                              !.snapshot = ft.logRequests], fWait', ft')
  /\ UNCHANGED <<fOpt, fLive, fRotated, fStrict>>

\* The stream that doClose() ended has finished: this.stream = undefined,
\* isOpen = false, assertStats(), isClosed = true; or it failed and close()
\* rejects.
FCloseStreamEnds(ok) ==
  /\ fClose.pc = "ending"
  /\ IF ok
       THEN /\ ft' = [ft EXCEPT !.stream = FALSE, !.isOpen = FALSE]
            /\ fClose' = FCloseFinish(fClose, ft)
       ELSE /\ fClose' = [fClose EXCEPT !.pc = "rejected"]
            /\ UNCHANGED ft
  /\ UNCHANGED <<fOpt, fLive, fRotated, fRot, fWait, fErrs, fStrict>>

FileInitState ==
  /\ ft = NewFileTransport
  /\ fLive = <<>>
  /\ fRotated = <<>>
  /\ fRot = [pc |-> "none", batch |-> <<>>, n |-> 0]
  /\ fWait = [pc |-> "idle", snapshot |-> 0]
  /\ fErrs = 0
  /\ fStrict = TRUE

(***************************************************************************)
(*            FileRotator.shouldRotate and the time-bucket key             *)
(***************************************************************************)
MaxDay == 1         \* the clock's days are 0..MaxDay
MaxHour == 1        \* the hours of a day are 0..MaxHour
MaxThreshold == 2   \* largest opts.maxSize tried
MaxShould == 3      \* shouldRotate() calls in one run

Clock == [day : 0..MaxDay, hour : 0..MaxHour]

Later(a, b) == a.day < b.day \/ (a.day = b.day /\ a.hour < b.hour)

\* opts of the rotator: interval "none" and hasMaxSize FALSE stand for unset.
ShouldOptions ==
  {o \in [interval : {"none", "daily", "hourly"}, hasMaxSize : BOOLEAN,
          maxSize : 0..MaxThreshold] : ~o.hasMaxSize => o.maxSize = 0}

ShouldSizes == 0..(MaxThreshold + 1)

\* computeKey(): null (here <<>>) without interval, else the ISO date cut
\* after the day or after the hour.
ComputeKey(interval, now) ==
  CASE interval = "none" -> <<>>
    [] interval = "daily" -> <<now.day>>
    [] interval = "hourly" -> <<now.day, now.hour>>

\* opts.maxSize as `!maxSize` sees it: undefined and 0 are both falsy.
MaxSizeOrZero(o) == IF o.hasMaxSize THEN o.maxSize ELSE 0

ShouldInitState ==
  /\ srKey = ComputeKey(srOpt.interval, srNow)
  /\ srCalls = <<>>

\* shouldRotate(size)
ShouldRotateCall(size) ==
  /\ Len(srCalls) < MaxShould
  /\ LET key == ComputeKey(srOpt.interval, srNow)
         r == ShouldRotate(srOpt.interval # "none", MaxSizeOrZero(srOpt), srKey, key, size)
     IN /\ srKey' = r.key
        /\ srCalls' = Append(srCalls, [size |-> size, stored |-> srKey, key |-> key,
                                       result |-> r.result, after |-> r.key])
  /\ UNCHANGED <<srOpt, srNow>>
  /\ UNCHANGED ExceptShould

\* Time passes.
ClockAdvances(t) ==
  /\ Later(srNow, t)
  /\ srNow' = t
  /\ UNCHANGED <<srOpt, srKey, srCalls>>
  /\ UNCHANGED ExceptShould

\* doRotate() ends: this.currentKey = this.computeKey()
DoRotateEnds ==
  /\ srKey' = ComputeKey(srOpt.interval, srNow)
  /\ UNCHANGED <<srOpt, srNow, srCalls>>
  /\ UNCHANGED ExceptShould

\* What the contract of shouldRotate says of one call c, given whether a
\* size threshold counts as configured.
ShouldContract(c, sized) ==
  /\ c.result = (c.key # c.stored \/ (sized /\ c.size >= srOpt.maxSize))
  /\ c.key # c.stored => c.after = c.key
  /\ (c.key = c.stored /\ sized /\ c.size = srOpt.maxSize - 1) => ~c.result

\* Of two calls in a row in the same bucket, the second is not answered by
\* the key: a bucket transition yields true once.
OncePerBucket ==
  \A i \in 1..(Len(srCalls) - 1) :
     srCalls[i].key = srCalls[i + 1].key => srCalls[i + 1].stored = srCalls[i + 1].key

\* C18 as stated: shouldRotate(currentSize) is true iff the bucket key differs
\* from the stored key (the new key is then stored, so a transition yields
\* true once, whatever the size) or a maxSize is set and currentSize >= maxSize;
\* in an unchanged bucket it is false for currentSize = maxSize - 1.
C18_ShouldRotateAsStated ==
  /\ \A i \in 1..Len(srCalls) : ShouldContract(srCalls[i], srOpt.hasMaxSize)
  /\ OncePerBucket

\* C18 amended: the same, for a maxSize that is set and not 0; with maxSize 0
\* the size never triggers a rotation.
C18_ShouldRotate ==
  /\ \A i \in 1..Len(srCalls) :
        ShouldContract(srCalls[i], srOpt.hasMaxSize /\ srOpt.maxSize # 0)
  /\ OncePerBucket

\* A run with a threshold and an interval: a call after a bucket transition
\* answers true at size 0, the next one in the same bucket answers false just
\* below the threshold, the third answers true at the threshold.
C18_Witness ==
  /\ srOpt.interval # "none" /\ srOpt.hasMaxSize /\ srOpt.maxSize >= 1
  /\ Len(srCalls) = 3
  /\ srCalls[1].key # srCalls[1].stored /\ srCalls[1].size = 0 /\ srCalls[1].result
  /\ srCalls[2].key = srCalls[1].key /\ srCalls[2].size = srOpt.maxSize - 1
  /\ ~srCalls[2].result
  /\ srCalls[3].key = srCalls[1].key /\ srCalls[3].size = srOpt.maxSize
  /\ srCalls[3].result

(***************************************************************************)
(*                         FileRotator.retention                           *)
(***************************************************************************)
MaxStamps == 3      \* rotation timestamps are 1..MaxStamps
MaxKeep == 2        \* largest maxFiles tried

Stamps == 1..MaxStamps

\* Directory entries: <base>.<ts><ext>, <base>.<ts><ext>.gz, the live file
\* <base><ext>, and a file of another base name.
RotatedNames == [kind : {"rotated"}, ts : Stamps, gz : BOOLEAN]
LiveName == [kind |-> "live", ts |-> 0, gz |-> FALSE]
OtherName == [kind |-> "other", ts |-> 0, gz |-> FALSE]
DirNames == RotatedNames \cup {LiveName, OtherName}

RetentionOptions == [maxFiles : 0..MaxKeep, hasExt : BOOLEAN]

\* f.startsWith(base + '.') && (f.endsWith(ext) || f.endsWith(ext + '.gz')):
\* with an extension the live name <base><ext> passes the test as well.
IsCandidate(f, hasExt) ==
  \/ f.kind = "rotated"
  \/ f.kind = "live" /\ hasExt

\* The position of a name in the order of Array.prototype.sort(): the stamps
\* are fixed-width digits, <name> sorts before <name>.gz, and the live name's
\* extension starts with a letter, which sorts after every digit.
NameRank(f) ==
  IF f.kind = "rotated" THEN 2 * f.ts + (IF f.gz THEN 1 ELSE 0)
  ELSE 2 * MaxStamps + 2

RECURSIVE SortNames(_)
SortNames(S) ==
  IF S = {} THEN <<>>
  ELSE LET f == CHOOSE x \in S : \A y \in S : NameRank(x) <= NameRank(y)
       IN <<f>> \o SortNames(S \ {f})

\* candidates[i].endsWith(base + ext)
EndsWithFilename(f) == f.kind = "live"

RetentionInitState ==
  /\ dRet = [pc |-> "idle", before |-> {}, candidates |-> <<>>, excess |-> 0, i |-> 1]
  /\ dFailed = {}

\* retention(): readdir, filter, sort, excess
RetentionReads ==
  /\ dRet.pc = "idle"
  /\ LET c == SortNames({f \in dDir : IsCandidate(f, dOpt.hasExt)})
         excess == Len(c) - dOpt.maxFiles
     IN dRet' = [pc |-> IF excess > 0 THEN "unlinking" ELSE "done",
                 before |-> dDir, candidates |-> c, excess |-> excess, i |-> 1]
  /\ UNCHANGED <<dOpt, dDir, dFailed>>
  /\ UNCHANGED ExceptRetention

\* One iteration of the loop: the live name is skipped, any other candidate
\* is unlinked; a failing unlink is swallowed by .catch(() => {}).
RetentionStep(ok) ==
  /\ dRet.pc = "unlinking"
  /\ LET f == dRet.candidates[dRet.i]
         last == dRet.i + 1 > dRet.excess
     IN /\ IF EndsWithFilename(f)
             THEN ok /\ UNCHANGED <<dDir, dFailed>>
             ELSE IF ok THEN dDir' = dDir \ {f} /\ UNCHANGED dFailed
                  ELSE dFailed' = dFailed \cup {f} /\ UNCHANGED dDir
        /\ dRet' = [dRet EXCEPT !.i = dRet.i + 1,
                                !.pc = IF last THEN "done" ELSE "unlinking"]
  /\ UNCHANGED dOpt
  /\ UNCHANGED ExceptRetention

\* The rotated files among a set of directory entries.
RotatedIn(S) == {f \in S : f.kind = "rotated"}

\* The n greatest names of S in the sort order (the newest).
Newest(S, n) == {f \in S : Cardinality({g \in S : NameRank(g) > NameRank(f)}) < n}

\* C19: after retention over a directory that held more than maxFiles rotated
\* files, with every unlink succeeding, exactly the maxFiles newest rotated
\* files remain, and the live file, if it was there, still is.
C19_KeepsNewestMaxFiles ==
  /\ dRet.pc = "done"
  /\ dFailed = {}
  /\ Cardinality(RotatedIn(dRet.before)) > dOpt.maxFiles
  => /\ RotatedIn(dDir) = Newest(RotatedIn(dRet.before), dOpt.maxFiles)
     /\ LiveName \in dRet.before => LiveName \in dDir

(***************************************************************************)
(*            Transport.workerHandshake under its withTimeout              *)
(***************************************************************************)
MaxMs == 2                    \* largest timeout given in the options, in ms
DefaultCloseTimeout == 60000  \* DEFAULTS.worker.closeTimeout
DefaultReadyTimeout == 30000  \* DEFAULTS.worker.readyTimeout

\* options.worker as given: a timeout that is not given keeps its default
\* through merge(DEFAULTS, options).
TimerOptions ==
  {o \in [hasReady : BOOLEAN, readyTimeout : (1..MaxMs) \cup {DefaultReadyTimeout},
          hasClose : BOOLEAN, closeTimeout : (1..MaxMs) \cup {DefaultCloseTimeout}] :
     /\ o.hasReady <=> o.readyTimeout # DefaultReadyTimeout
     /\ o.hasClose <=> o.closeTimeout # DefaultCloseTimeout}

\* The expected replies of the three handshakes: runAsWorker, drainWorker,
\* closeWorker.
Replies == {"ready", "drained", "closed"}

\* The instants looked at: around the given timeouts and around the defaults.
Instants ==
  (0..(MaxMs + 1))
  \cup {DefaultReadyTimeout, DefaultReadyTimeout + 1,
        DefaultCloseTimeout, DefaultCloseTimeout + 1}

\* The ms handed to withTimeout: this.options.worker?.closeTimeout ?? 0,
\* whatever the handshake.
HandshakeMs(expected, o) == o.closeTimeout

TimerInitState ==
  /\ tmHs = [expected |-> "ready", pc |-> "idle", ms |-> 0, at |-> 0]
  /\ tmElapsed = 0

\* workerHandshake(command, expectedReply): withTimeout starts its timer.
TimedHandshakeStart(expected) ==
  /\ tmHs.pc = "idle"
  /\ tmHs' = [expected |-> expected, pc |-> "pending",
              ms |-> HandshakeMs(expected, tmOpt), at |-> 0]
  /\ tmElapsed' = 0
  /\ UNCHANGED tmOpt
  /\ UNCHANGED ExceptTimer

\* Time passes while the handshake is pending; a timer that is due fires
\* before time moves on.
TimePasses(t) ==
  /\ tmHs.pc = "pending"
  /\ t > tmElapsed /\ t <= tmHs.ms
  /\ tmElapsed' = t
  /\ UNCHANGED <<tmOpt, tmHs>>
  /\ UNCHANGED ExceptTimer

\* withTimeout's timer fires: reject(new Error(`Timeout after ${ms}ms`))
TimerFires ==
  /\ tmHs.pc = "pending"
  /\ tmElapsed >= tmHs.ms
  /\ tmHs' = [tmHs EXCEPT !.pc = "timedout", !.at = tmElapsed]
  /\ UNCHANGED <<tmOpt, tmElapsed>>
  /\ UNCHANGED ExceptTimer

\* The expected reply arrives: clearTimeout(timer); resolve(value)
ReplyArrives ==
  /\ tmHs.pc = "pending"
  /\ tmHs' = [tmHs EXCEPT !.pc = "resolved", !.at = tmElapsed]
  /\ UNCHANGED <<tmOpt, tmElapsed>>
  /\ UNCHANGED ExceptTimer

\* The timeout the options name for a handshake.
OwnTimeout(expected, o) ==
  IF expected = "ready" THEN o.readyTimeout ELSE o.closeTimeout

\* C23: a pending handshake has not outlived its own timeout (readyTimeout
\* for the ready handshake, closeTimeout for drain and close), and one that
\* got no reply failed when its own timeout elapsed.
C23_OwnTimeoutBounds ==
  /\ tmHs.pc = "pending" => tmElapsed <= OwnTimeout(tmHs.expected, tmOpt)
  /\ tmHs.pc = "timedout" => tmHs.at = OwnTimeout(tmHs.expected, tmOpt)

(***************************************************************************)
(*     isRetryableHttpError, and HttpTransport.sendBatch's retry policy    *)
(***************************************************************************)
MaxStatus == 600    \* the status values tried are 0..MaxStatus

\* The values handed to the classifier: a falsy value, an object without
\* status (undefined or null), one whose status is not a number
\* (Number(status) is NaN), one with a number as status.
ErrValues ==
  [kind : {"falsy", "nostatus", "nan"}, status : {0}]
  \cup [kind : {"status"}, status : 0..MaxStatus]

NoErr == [kind |-> "none", status |-> 0]

\* isRetryableHttpError with the 5xx test from 501 on.
IsRetryableHttpErrorAbove500(err) ==
  IF err.kind \in {"falsy", "nostatus", "nan"} THEN TRUE
  ELSE IF err.status > 500 /\ err.status < 600 THEN TRUE
  ELSE IF err.status = 408 \/ err.status = 429 THEN TRUE
  ELSE FALSE

\* isRetryableHttpError(err)
IsRetryableHttpError(err) ==
  IF err.kind = "falsy" THEN TRUE
  ELSE IF err.kind = "nostatus" THEN TRUE
  ELSE IF err.kind = "nan" THEN TRUE
  ELSE IF err.status >= 500 /\ err.status < 600 THEN TRUE
  ELSE IF err.status = 408 \/ err.status = 429 THEN TRUE
  ELSE FALSE

\* What one fetch attempt of sendBatch ends with: a network failure (an error
\* without status), an abort, or a response; res.ok is status 200..299.
FetchOutcomes ==
  [kind : {"nostatus", "abort"}, status : {0}]
  \cup [kind : {"status"}, status : {x \in 0..MaxStatus : x >= 200 /\ x < 600}]

ResOk(out) == out.kind = "status" /\ out.status >= 200 /\ out.status <= 299

\* The retry options of an HttpTransport: no retryErrorCodes, onError given.
HttpRetryInputs == {o \in RetryInputs : o.hasOnError /\ ~o.hasCodes}

HttpInitState ==
  /\ hErr = NoErr
  /\ hProbe = [err |-> NoErr, result |-> FALSE]

\* A direct call isRetryableHttpError(err), on a run that sends nothing.
Classify(err) ==
  /\ rCalls = 0 /\ hProbe.err = NoErr
  /\ hProbe' = [err |-> err, result |-> IsRetryableHttpError(err)]
  /\ UNCHANGED <<hErr, rvars>>
  /\ UNCHANGED ExceptHttpSend

\* sendBatch: withRetry's loop head, the fetch of the next attempt starts.
HttpAttemptStarts ==
  /\ hProbe.err = NoErr
  /\ RetryLoopHead
  /\ UNCHANGED hvars
  /\ UNCHANGED ExceptHttpSend

\* The attempt's fetch settles: a response that is not ok is thrown as an
\* Error carrying res.status.
HttpFetchSettles(out) ==
  /\ ResOk(out) <=> rCalls > rOpt.failN
  /\ RetryOpSettles(IF out.kind = "abort" THEN "abort" ELSE "nocode")
  /\ hErr' = IF ResOk(out) THEN hErr ELSE out
  /\ UNCHANGED hProbe
  /\ UNCHANGED ExceptHttpSend

\* sendBatch's onError: handleError, then
\* isRetryableHttpError(err) ? RetryAction.CONTINUE : RetryAction.STOP
HttpOnError ==
  /\ RetryAfterError(~IsRetryableHttpError(hErr))
  /\ UNCHANGED hvars
  /\ UNCHANGED ExceptHttpSend

HttpDelayElapsed ==
  /\ RetryDelayElapsed
  /\ UNCHANGED hvars
  /\ UNCHANGED ExceptHttpSend

\* What the contract says of the classifier's answer for err.
RetryableAsStated(err) ==
  \/ err.kind # "status"
  \/ err.status = 408
  \/ err.status = 429
  \/ err.status \in 500..599

\* C25: the classifier answers retryable iff the error has no numeric status
\* or its status is 408, 429 or in 500..599; and once an HTTP attempt of a
\* chunk has failed with an error classified not retryable, that attempt
\* stays the chunk's last one: the callback stops withRetry.
C25_StatusClassifier ==
  /\ hProbe.err # NoErr => (hProbe.result <=> RetryableAsStated(hProbe.err))
  /\ (hErr # NoErr /\ hErr.kind # "abort" /\ ~RetryableAsStated(hErr)) =>
        /\ rPc \in {"onError", "rejected"}
        /\ rCalls = rLastError.attempt
        /\ rPc = "rejected" => rBroke = "stop"

\* C25 witness: with a budget of 3 or more, the first attempt failed with a
\* retryable 503 (so a second was made), the second with 404: rejected after
\* two attempts.
C25_Witness ==
  /\ rMaxRetry >= 3 /\ rOpt.failN >= 3
  /\ hErr = [kind |-> "status", status |-> 404]
  /\ rPc = "rejected" /\ rBroke = "stop" /\ rCalls = 2

(***************************************************************************)
(* Components that a specification leaves unused                           *)
(***************************************************************************)
\* The queue of a component that is not under study: constructed, unused.
QueueUnused ==
  /\ concArg = 1
  /\ concurrency = QueueCtor(concArg)
  /\ QueueInitState

\* withRetry is not called.
RetryUnused ==
  /\ rOpt = [hasMaxRetry |-> FALSE, maxRetry |-> DefaultMaxRetry,
             hasCodes |-> FALSE, hasOnError |-> FALSE, failN |-> 0]
  /\ RetryInitState

\* A rotator that is constructed and never asked to rotate.
RotUnused ==
  /\ rotOpts = [compress |-> FALSE, hasMaxFiles |-> FALSE, maxFiles |-> 0]
  /\ RotInitState

\* A transport that is constructed and never used.
TransportUnused ==
  /\ sinkOpt = [batchSize |-> 1, concurrency |-> 1]
  /\ TransportInitState

\* runAsWorker() is studied on its own variables only in SpecPromote.
PromoteUnused == PromoteInitState

\* A FileTransport that is constructed and never used.
FileUnused ==
  /\ fOpt = [batchSize |-> 1, hasRotator |-> FALSE,
             rotate |-> [maxSize |-> 1, compress |-> FALSE, hasMaxFiles |-> FALSE,
                         maxFiles |-> 1]]
  /\ FileInitState

\* A rotator that is never asked whether to rotate.
ShouldUnused ==
  /\ srOpt = [interval |-> "none", hasMaxSize |-> FALSE, maxSize |-> 0]
  /\ srNow = [day |-> 0, hour |-> 0]
  /\ ShouldInitState

\* retention() is not called.
RetentionUnused ==
  /\ dOpt = [maxFiles |-> 0, hasExt |-> TRUE]
  /\ dDir = {}
  /\ RetentionInitState

\* No handshake is timed.
TimerUnused ==
  /\ tmOpt = [hasReady |-> FALSE, readyTimeout |-> DefaultReadyTimeout,
              hasClose |-> FALSE, closeTimeout |-> DefaultCloseTimeout]
  /\ TimerInitState

\* No chunk is sent and the classifier is not called.
HttpUnused == HttpInitState

\* The formatter serializes every entry.
FaultsUnused == fBad = {}

\* close() is not called.
CloseUnused == fClose = NewFileClose

(***************************************************************************)
(* Specifications                                                          *)
(***************************************************************************)
InitQueue ==
  /\ concArg \in ConcArgs
  /\ concurrency = QueueCtor(concArg)
  /\ QueueInitState
  /\ RetryUnused
  /\ RotUnused
  /\ TransportUnused
  /\ PromoteUnused
  /\ FileUnused
  /\ ShouldUnused
  /\ RetentionUnused
  /\ TimerUnused
  /\ HttpUnused
  /\ FaultsUnused
  /\ CloseUnused

NextQueue ==
  \/ \E b \in BOOLEAN : Enqueue(b) /\ UNCHANGED ExceptQueue
  \/ \E j \in Jobs : \E how \in {"resolved", "rejected"} :
       JobSettles(j, how) /\ UNCHANGED ExceptQueue
  \/ \E j \in Jobs : JobFinally(j) /\ UNCHANGED ExceptQueue
  \/ \E d \in Drains : Drain(d) /\ UNCHANGED ExceptQueue

SpecQueue == InitQueue /\ [][NextQueue]_vars

\* Every started job settles, and the .catch().finally() callbacks of a
\* settled promise run (they are microtasks).  Nothing obliges the callers
\* to enqueue or to drain.
FairQueue ==
  /\ WF_vars(\E j \in Jobs : \E how \in {"resolved", "rejected"} :
               JobSettles(j, how) /\ UNCHANGED ExceptQueue)
  /\ WF_vars(\E j \in Jobs : JobFinally(j) /\ UNCHANGED ExceptQueue)

SpecQueueFair == InitQueue /\ [][NextQueue]_vars /\ FairQueue

InitRetry ==
  /\ rOpt \in RetryInputs
  /\ RetryInitState
  /\ QueueUnused
  /\ RotUnused
  /\ TransportUnused
  /\ PromoteUnused
  /\ FileUnused
  /\ ShouldUnused
  /\ RetentionUnused
  /\ TimerUnused
  /\ HttpUnused
  /\ FaultsUnused
  /\ CloseUnused

NextRetry ==
  \/ RetryLoopHead /\ UNCHANGED ExceptRetry
  \/ \E kind \in ErrKinds : RetryOpSettles(kind) /\ UNCHANGED ExceptRetry
  \/ \E stop \in BOOLEAN : RetryAfterError(stop) /\ UNCHANGED ExceptRetry
  \/ RetryDelayElapsed /\ UNCHANGED ExceptRetry

SpecRetry == InitRetry /\ [][NextRetry]_vars

InitRotator ==
  /\ rotOpts \in RotOptions
  /\ RotInitState
  /\ QueueUnused
  /\ RetryUnused
  /\ TransportUnused
  /\ PromoteUnused
  /\ FileUnused
  /\ ShouldUnused
  /\ RetentionUnused
  /\ TimerUnused
  /\ HttpUnused
  /\ FaultsUnused
  /\ CloseUnused

NextRotator ==
  \/ \E c \in RotCalls : RotateCall(c) /\ UNCHANGED ExceptRotator
  \/ \E c \in RotCalls : RotWaiterResumes(c) /\ UNCHANGED ExceptRotator
  \/ \E c \in RotCalls : \E ok, openOk \in BOOLEAN :
       RotCloseSettles(c, ok, openOk) /\ UNCHANGED ExceptRotator
  \/ \E c \in RotCalls : \E ok, openOk \in BOOLEAN :
       RotRenameSettles(c, ok, openOk) /\ UNCHANGED ExceptRotator
  \/ \E c \in RotCalls : \E ok, openOk \in BOOLEAN :
       RotCompressSettles(c, ok, openOk) /\ UNCHANGED ExceptRotator
  \/ \E c \in RotCalls : \E ok, openOk \in BOOLEAN :
       RotPruneSettles(c, ok, openOk) /\ UNCHANGED ExceptRotator

SpecRotator == InitRotator /\ [][NextRotator]_vars

Init ==
  /\ sinkOpt \in SinkOptions
  /\ TransportInitState
  /\ QueueUnused
  /\ RetryUnused
  /\ RotUnused
  /\ PromoteUnused
  /\ FileUnused
  /\ ShouldUnused
  /\ RetentionUnused
  /\ TimerUnused
  /\ HttpUnused
  /\ FaultsUnused
  /\ CloseUnused

Next ==
  \/ Log /\ UNCHANGED Others
  \/ \E f \in FlushIds : FlushAndWait(f) /\ UNCHANGED Others
  \/ \E c \in CloseIds : Close(c) /\ UNCHANGED Others
  \/ RunAsWorker /\ UNCHANGED Others
  \/ \E ok \in BOOLEAN : WorkerCreated(ok) /\ UNCHANGED Others
  \/ \E x \in Ctx : \E b \in tr[x].jrun : \E how \in {"ok", "failed", "prelude"} :
       JobEnds(x, b, how) /\ UNCHANGED Others
  \/ \E x \in Ctx : TimerFlush(x) /\ UNCHANGED Others
  \/ \E x \in Ctx : \E c \in CallIds : Poll(x, c) /\ UNCHANGED Others
  \/ WorkerReceive /\ UNCHANGED Others
  \/ WorkerError /\ UNCHANGED Others
  \/ WorkerExit /\ UNCHANGED Others
  \/ MainReceive /\ UNCHANGED Others
  \/ \E h \in HsIds : HandshakeTimeout(h) /\ UNCHANGED Others
  \/ \E c \in CloseIds : CloseAfterTerminate(c) /\ UNCHANGED Others

Spec == Init /\ [][Next]_vars

InitPromote ==
  /\ PromoteInitState
  /\ QueueUnused
  /\ RetryUnused
  /\ RotUnused
  /\ TransportUnused
  /\ FileUnused
  /\ ShouldUnused
  /\ RetentionUnused
  /\ TimerUnused
  /\ HttpUnused
  /\ FaultsUnused
  /\ CloseUnused

NextPromote ==
  \/ \E k \in PromoteCalls : PromoteCall(k) /\ UNCHANGED ExceptPromote
  \/ \E k \in PromoteCalls : \E ok \in BOOLEAN :
       PromoteCreated(k, ok) /\ UNCHANGED ExceptPromote
  \/ \E k \in PromoteCalls : \E ok \in BOOLEAN :
       PromoteSettles(k, ok) /\ UNCHANGED ExceptPromote

SpecPromote == InitPromote /\ [][NextPromote]_vars

InitFile ==
  /\ fOpt \in FileOptions
  /\ FileInitState
  /\ QueueUnused
  /\ RetryUnused
  /\ RotUnused
  /\ TransportUnused
  /\ PromoteUnused
  /\ ShouldUnused
  /\ RetentionUnused
  /\ TimerUnused
  /\ HttpUnused
  /\ FaultsUnused
  /\ CloseUnused

NextFile ==
  \/ FLog /\ UNCHANGED ExceptFile
  \/ FTimerFlush /\ UNCHANGED ExceptFile
  \/ FFlushAndWait /\ UNCHANGED ExceptFile
  \/ FPoll /\ UNCHANGED ExceptFile
  \/ \E b \in ft.jrun : \E ok \in BOOLEAN : FJobEnds(b, ok) /\ UNCHANGED ExceptFile
  \/ \E ok \in BOOLEAN : FCloseSettles(ok) /\ UNCHANGED ExceptFile
  \/ \E ok \in BOOLEAN : FRenameSettles(ok) /\ UNCHANGED ExceptFile
  \/ \E ok \in BOOLEAN : FCompressSettles(ok) /\ UNCHANGED ExceptFile
  \/ \E ok \in BOOLEAN : FPruneSettles(ok) /\ UNCHANGED ExceptFile

SpecFile == InitFile /\ [][NextFile]_vars

\* The FileTransport with entries the formatter throws on and with a
\* destination that cannot be opened at first.
InitFileFaults ==
  /\ fOpt \in FileOptions
  /\ fBad \in SUBSET FEntries
  /\ FileInitState
  /\ QueueUnused
  /\ RetryUnused
  /\ RotUnused
  /\ TransportUnused
  /\ PromoteUnused
  /\ ShouldUnused
  /\ RetentionUnused
  /\ TimerUnused
  /\ HttpUnused
  /\ CloseUnused

NextFileFaults ==
  \/ NextFile
  \/ FLogOpenFails /\ UNCHANGED ExceptFile

SpecFileFaults == InitFileFaults /\ [][NextFileFaults]_vars

\* The FileTransport with close(), on a destination that cannot be opened at
\* first.
InitFileClose ==
  /\ fOpt \in FileOptions
  /\ FileInitState
  /\ fClose = NewFileClose
  /\ QueueUnused
  /\ RetryUnused
  /\ RotUnused
  /\ TransportUnused
  /\ PromoteUnused
  /\ ShouldUnused
  /\ RetentionUnused
  /\ TimerUnused
  /\ HttpUnused
  /\ FaultsUnused

NextFileClose ==
  \/ FLogOrReject /\ UNCHANGED ExceptFileClose
  \/ ~fClose.isClosing /\ FLogOpenFails /\ UNCHANGED fClose /\ UNCHANGED ExceptFileClose
  \/ fClose.timerOn /\ FTimerFlush /\ UNCHANGED fClose /\ UNCHANGED ExceptFileClose
  \/ FFlushAndWait /\ UNCHANGED fClose /\ UNCHANGED ExceptFileClose
  \/ FClose /\ UNCHANGED ExceptFileClose
  \/ FPoll /\ FCloseFollows /\ UNCHANGED ExceptFileClose
  \/ \E b \in ft.jrun : \E ok \in BOOLEAN :
       FJobEnds(b, ok) /\ FCloseFollows /\ UNCHANGED ExceptFileClose
  \/ \E ok \in BOOLEAN : FCloseSettles(ok) /\ UNCHANGED fClose /\ UNCHANGED ExceptFileClose
  \/ \E ok \in BOOLEAN : FRenameSettles(ok) /\ UNCHANGED fClose /\ UNCHANGED ExceptFileClose
  \/ \E ok \in BOOLEAN : FCompressSettles(ok) /\ UNCHANGED fClose /\ UNCHANGED ExceptFileClose
  \/ \E ok \in BOOLEAN : FPruneSettles(ok) /\ UNCHANGED fClose /\ UNCHANGED ExceptFileClose
  \/ \E ok \in BOOLEAN : FCloseStreamEnds(ok) /\ UNCHANGED ExceptFileClose

SpecFileClose == InitFileClose /\ [][NextFileClose]_vars

\* Every I/O operation terminates and every timer fires: the flush timer
\* (setInterval), waitUntil's delay (setTimeout), the write jobs of the queue
\* and the steps of a rotation.
FairFile ==
  /\ WF_vars(FTimerFlush /\ UNCHANGED ExceptFile)
  /\ WF_vars(FPoll /\ UNCHANGED ExceptFile)
  /\ WF_vars(\E b \in ft.jrun : \E ok \in BOOLEAN : FJobEnds(b, ok) /\ UNCHANGED ExceptFile)
  /\ WF_vars(\E ok \in BOOLEAN : FCloseSettles(ok) /\ UNCHANGED ExceptFile)
  /\ WF_vars(\E ok \in BOOLEAN : FRenameSettles(ok) /\ UNCHANGED ExceptFile)
  /\ WF_vars(\E ok \in BOOLEAN : FCompressSettles(ok) /\ UNCHANGED ExceptFile)
  /\ WF_vars(\E ok \in BOOLEAN : FPruneSettles(ok) /\ UNCHANGED ExceptFile)

\* The FileTransport whose destination opens, with entries the formatter may
\* throw on, under terminating I/O.
SpecFileFair == InitFileFaults /\ [][NextFile]_vars /\ FairFile

InitShould ==
  /\ srOpt \in ShouldOptions
  /\ srNow \in Clock
  /\ ShouldInitState
  /\ QueueUnused
  /\ RetryUnused
  /\ RotUnused
  /\ TransportUnused
  /\ PromoteUnused
  /\ FileUnused
  /\ RetentionUnused
  /\ TimerUnused
  /\ HttpUnused
  /\ FaultsUnused
  /\ CloseUnused

NextShould ==
  \/ \E size \in ShouldSizes : ShouldRotateCall(size)
  \/ \E t \in Clock : ClockAdvances(t)
  \/ DoRotateEnds

SpecShould == InitShould /\ [][NextShould]_vars

InitRetention ==
  /\ dOpt \in RetentionOptions
  /\ dDir \in SUBSET DirNames
  /\ RetentionInitState
  /\ QueueUnused
  /\ RetryUnused
  /\ RotUnused
  /\ TransportUnused
  /\ PromoteUnused
  /\ FileUnused
  /\ ShouldUnused
  /\ TimerUnused
  /\ HttpUnused
  /\ FaultsUnused
  /\ CloseUnused

NextRetention ==
  \/ RetentionReads
  \/ \E ok \in BOOLEAN : RetentionStep(ok)

SpecRetention == InitRetention /\ [][NextRetention]_vars

InitTimer ==
  /\ tmOpt \in TimerOptions
  /\ TimerInitState
  /\ QueueUnused
  /\ RetryUnused
  /\ RotUnused
  /\ TransportUnused
  /\ PromoteUnused
  /\ FileUnused
  /\ ShouldUnused
  /\ RetentionUnused
  /\ HttpUnused
  /\ FaultsUnused
  /\ CloseUnused

NextTimer ==
  \/ \E expected \in Replies : TimedHandshakeStart(expected)
  \/ \E t \in Instants : TimePasses(t)
  \/ TimerFires
  \/ ReplyArrives

SpecTimer == InitTimer /\ [][NextTimer]_vars

InitHttp ==
  /\ rOpt \in HttpRetryInputs
  /\ RetryInitState
  /\ HttpInitState
  /\ QueueUnused
  /\ RotUnused
  /\ TransportUnused
  /\ PromoteUnused
  /\ FileUnused
  /\ ShouldUnused
  /\ RetentionUnused
  /\ TimerUnused
  /\ FaultsUnused
  /\ CloseUnused

NextHttp ==
  \/ \E err \in ErrValues : Classify(err)
  \/ HttpAttemptStarts
  \/ \E out \in FetchOutcomes : HttpFetchSettles(out)
  \/ HttpOnError
  \/ HttpDelayElapsed

SpecHttp == InitHttp /\ [][NextHttp]_vars

\* The transport with repeated close() calls: every call of the embedder
\* except flushAndWait(), a worker that runs until it is terminated, no
\* handshake timeout.
NextClose ==
  \/ Log /\ UNCHANGED Others
  \/ \E c \in CloseIds : Close(c) /\ UNCHANGED Others
  \/ \E c \in RecloseIds : Reclose(c) /\ UNCHANGED Others
  \/ RunAsWorker /\ UNCHANGED Others
  \/ \E ok \in BOOLEAN : WorkerCreated(ok) /\ UNCHANGED Others
  \/ \E x \in Ctx : \E b \in tr[x].jrun : \E how \in {"ok", "failed", "prelude"} :
       JobEnds(x, b, how) /\ UNCHANGED Others
  \/ \E x \in Ctx : TimerFlush(x) /\ UNCHANGED Others
  \/ \E x \in Ctx : \E c \in CallIds : Poll(x, c) /\ UNCHANGED Others
  \/ WorkerReceive /\ UNCHANGED Others
  \/ MainReceive /\ UNCHANGED Others
  \/ Terminated /\ UNCHANGED Others
  \/ \E c \in CloseIds \cup RecloseIds : CloseAfterTerminate(c) /\ UNCHANGED Others

\* The event loop runs every timer that is due, every settled promise's
\* continuation and every delivered message; a terminated thread exits.
FairClose ==
  /\ WF_vars(\E x \in Ctx : \E b \in tr[x].jrun : \E how \in {"ok", "failed", "prelude"} :
               JobEnds(x, b, how) /\ UNCHANGED Others)
  /\ WF_vars(\E x \in Ctx : TimerFlush(x) /\ UNCHANGED Others)
  /\ WF_vars(\E x \in Ctx : \E c \in CallIds : Poll(x, c) /\ UNCHANGED Others)
  /\ WF_vars(\E ok \in BOOLEAN : WorkerCreated(ok) /\ UNCHANGED Others)
  /\ WF_vars(WorkerReceive /\ UNCHANGED Others)
  /\ WF_vars(MainReceive /\ UNCHANGED Others)
  /\ WF_vars(Terminated /\ UNCHANGED Others)
  /\ WF_vars(\E c \in CloseIds \cup RecloseIds : CloseAfterTerminate(c) /\ UNCHANGED Others)

SpecClose == Init /\ [][NextClose]_vars /\ FairClose

(***************************************************************************)
(* Claims: AsyncJobQueue                                                   *)
(***************************************************************************)
\* C4: in every reachable state the number of jobs started but not yet
\* settled lies between 0 and max(1, concurrency argument), and so does the
\* queue's own counter.
C4_ConcurrencyBound ==
  /\ Cardinality(StartedNotSettled) <= Max(1, concArg)
  /\ running >= 0
  /\ running <= Max(1, concArg)
  /\ Cardinality(StartedNotSettled) <= running

\* C4 witness: the limit is reached while another job, enqueued by a
\* running job, has to wait in the queue.
C4_Witness ==
  /\ concArg >= 2
  /\ Cardinality(StartedNotSettled) = concArg
  /\ \E i \in 1..Len(queue) : queue[i] \in spawned

\* C5: a pending drain() completes only in a step after which no job waits
\* in the queue and none is running; every job enqueued so far, the ones
\* enqueued by running jobs included, has finished.
C5_DrainOnlyWhenIdle ==
  [][\A d \in Drains :
       (drainState[d] = "pending" /\ drainState'[d] = "done")
         => /\ Len(queue') = 0
            /\ running' = 0
            /\ \A j \in Jobs : jobState'[j] \in {"new", "finished"}]_vars

\* C5 witness: a drain() that had to wait has completed, and a job enqueued
\* by a running job is among the finished ones.
C5_Witness ==
  /\ \E d \in Drains : drainState[d] = "done"
  /\ \E j \in spawned : jobState[j] = "finished"
  /\ running = 0

\* The drain() calls that are pending.
PendingDrains == {d \in Drains : drainState[d] = "pending"}

\* C26: the step that completes one pending drain() completes all of them
\* and leaves no waiter; whenever the queue is idle no drain() is pending;
\* a drain() called on an idle queue completes in the call itself.
C26_DrainsCompleteTogether ==
  /\ []((running = 0 /\ Len(queue) = 0) => (PendingDrains = {} /\ waiters = {}))
  /\ [][/\ (\E d \in PendingDrains : drainState'[d] = "done") =>
             /\ \A e \in PendingDrains : drainState'[e] = "done"
             /\ waiters' = {}
             /\ running' = 0 /\ Len(queue') = 0
        /\ \A d \in Drains :
             (drainState[d] = "idle" /\ drainState'[d] # "idle"
                /\ running = 0 /\ Len(queue) = 0)
               => drainState'[d] = "immediate" /\ waiters' = waiters]_vars

\* C26 witness: a single job ever ran, so the queue became idle once; two
\* drain() calls that were pending then have both completed, and no waiter
\* is left.
C26_Witness ==
  /\ \A d \in Drains : drainState[d] = "done"
  /\ Cardinality(Drains) >= 2
  /\ Cardinality({j \in Jobs : jobState[j] # "new"}) = 1
  /\ running = 0 /\ Len(queue) = 0 /\ waiters = {}

(***************************************************************************)
(* Claims: withRetry                                                       *)
(***************************************************************************)
\* The maxRetry the caller asked for (the default when none was given).
RequestedMaxRetry == IF rOpt.hasMaxRetry THEN rOpt.maxRetry ELSE DefaultMaxRetry

\* A run in which nothing but the retry budget ends the attempts: no attempt
\* threw an AbortError, no error was outside a retryErrorCodes list, and the
\* onError callback never returned STOP.
RetryBudgetRun == rBroke = "none" /\ rLastError.kind # "abort"

\* C7: for an operation that fails exactly N times and then succeeds (its
\* failures being ordinary retryable errors), withRetry invokes it N+1 times
\* and returns when max(1, maxRetry) > N, and invokes it max(1, maxRetry)
\* times and rejects otherwise.
C7_AttemptCount ==
  (rPc \in {"returned", "rejected", "rethrown"} /\ RetryBudgetRun)
    => IF Max(1, RequestedMaxRetry) > rOpt.failN
         THEN rPc = "returned" /\ rCalls = rOpt.failN + 1
         ELSE rPc = "rejected" /\ rCalls = Max(1, RequestedMaxRetry)

\* C7 witness: maxRetry below 1, an operation that would fail twice: one
\* attempt, then the rejection.
C7_Witness ==
  /\ rOpt.hasMaxRetry /\ rOpt.maxRetry < 1 /\ rOpt.failN = 2
  /\ rPc = "rejected" /\ RetryBudgetRun /\ rCalls = 1

\* The call has settled.
RetryFinished == rPc \in {"returned", "rethrown", "rejected"}

\* Every answer the onError callback has given so far was STOP.
AlwaysStop ==
  /\ rOpt.hasOnError
  /\ rOnErrorCalls = (IF rBroke = "stop" THEN 1 ELSE 0)

\* C20: once the callback has answered STOP, after failed attempt k, the call
\* is rejected with k invocations of the operation and the k - 1 delays that
\* preceded attempt k, none after it; a call whose callback answers nothing
\* but STOP ends with exactly one invocation, whatever maxRetry is.
C20_StopHalts ==
  /\ rBroke = "stop" =>
       /\ rPc = "rejected"
       /\ rCalls = rLastError.attempt
       /\ rDelays = rLastError.attempt - 1
  /\ (RetryFinished /\ AlwaysStop) => rCalls = 1

\* C20 witness: maxRetry 3 or more, the first attempt fails, the callback
\* answers STOP: rejected after one invocation and no delay.
C20_Witness ==
  /\ rMaxRetry >= 3 /\ rOpt.failN >= 2
  /\ rBroke = "stop" /\ rOnErrorCalls = 1
  /\ rPc = "rejected" /\ rCalls = 1 /\ rDelays = 0

\* The onError invocations that the failed attempts before attempt k made.
OnErrorCallsBefore(k) == IF rOpt.hasOnError THEN k - 1 ELSE 0

\* C21: with a non-empty list of retryable codes, once an attempt has failed
\* with an error that has no code or an unlisted one, the call is rejected;
\* that attempt was the last invocation whatever budget remained, the error
\* thrown has this failure (lastError) as its cause, and neither the callback
\* nor a delay followed it.
C21_UnlistedCodeEndsRetrying ==
  (rOpt.hasCodes /\ rLastError.kind \in {"unlisted", "nocode"}) =>
     /\ rPc = "rejected" /\ rBroke = "code"
     /\ rCalls = rLastError.attempt
     /\ rK = rLastError.attempt
     /\ rDelays = rLastError.attempt - 1
     /\ rOnErrorCalls = OnErrorCallsBefore(rLastError.attempt)

\* C21 witness: a budget of 3 or more, the first attempt fails with a listed
\* code and is retried, the second fails without a code: rejected after two
\* invocations.
C21_Witness ==
  /\ rOpt.hasCodes /\ rMaxRetry >= 3 /\ rOpt.failN >= 3
  /\ rLastError = [attempt |-> 2, kind |-> "nocode"]
  /\ rPc = "rejected" /\ rCalls = 2

\* C22: once an attempt has failed with an AbortError, the call has rethrown
\* it: that attempt was the last invocation, no delay was waited after it,
\* the callback was not invoked for it, and no 'failed after N attempts'
\* error was built.
C22_AbortRethrown ==
  rLastError.kind = "abort" =>
     /\ rPc = "rethrown" /\ rBroke = "none"
     /\ rCalls = rLastError.attempt
     /\ rDelays = rLastError.attempt - 1
     /\ rOnErrorCalls = OnErrorCallsBefore(rLastError.attempt)
     /\ rK = 0

\* C22 witness: a callback is given and the budget is 3 or more; the first
\* attempt fails and is retried, the second is aborted.
C22_Witness ==
  /\ rOpt.hasOnError /\ rMaxRetry >= 3 /\ rOpt.failN >= 3
  /\ rLastError = [attempt |-> 2, kind |-> "abort"]
  /\ rPc = "rethrown" /\ rCalls = 2 /\ rOnErrorCalls = 1 /\ rDelays = 1

(***************************************************************************)
(* Claims: FileRotator                                                     *)
(***************************************************************************)
\* C6: at most one rotate() call is inside the rotation body at a time; a
\* call that arrived while a rotation was in flight performs no rotation
\* step (no closeSink, rename, compress, prune, openSink), returns only
\* after that rotation has finished, and returns false.
C6_SingleRotation ==
  /\ Cardinality(RotBodies) <= 1
  /\ \A c \in RotCalls :
       rotCall[c].arrivedDuring # 0 =>
         /\ rotCall[c].closeN = 0 /\ rotCall[c].openN = 0 /\ rotCall[c].did = {}
         /\ rotCall[c].pc \in {"wait", "done"}
         /\ rotCall[c].pc = "done" =>
              /\ rotCall[c].result = "false"
              /\ rotCall[rotCall[c].arrivedDuring].pc \in {"done", "failed"}

\* C6 witness: two calls overlapped; the first rotated and returned true,
\* the second has returned false.
C6_Witness ==
  \E a, b \in RotCalls :
    /\ rotCall[b].arrivedDuring = a
    /\ rotCall[a].pc = "done" /\ rotCall[a].result = "true"
    /\ rotCall[b].pc = "done" /\ rotCall[b].result = "false"


(***************************************************************************)
(* Claims: runAsWorker (specification SpecPromote)                         *)
(***************************************************************************)

\* C12: however runAsWorker() calls interleave, at most one worker is ever
\* created for the transport, and a call made when the transport is already
\* offloaded creates nothing and posts nothing.
C12_AtMostOneWorker ==
  /\ Cardinality(pCreated) <= 1
  /\ Cardinality(pPosted) <= 1

(***************************************************************************)
(* Claims: repeated close() (specification SpecClose)                      *)
(***************************************************************************)

\* C11: a close() call issued after an earlier close() has completed never
\* blocks forever, on a local and on an offloaded transport: it returns (or,
\* when its handshake fails, rejects).
C11_SecondCloseCompletes ==
  \A c \in RecloseIds :
    (call.main[c].pc # "idle") ~> (call.main[c].pc \in {"done", "rejected"})

\* C15: a rotate() call that starts a rotation calls closeSink once, and
\* calls openSink once, after every rotation step and before it settles,
\* whatever closeSink, rename, compression and pruning did.
C15_CloseThenOpenOnce ==
  \A c \in RotCalls :
    /\ rotCall[c].pc = "idle" => rotCall[c].closeN = 0 /\ rotCall[c].openN = 0
    /\ RotInBody(c) => rotCall[c].closeN = 1 /\ rotCall[c].openN = 0
    /\ rotCall[c].pc \in {"done", "failed"} /\ ~rotCall[c].waited =>
         rotCall[c].closeN = 1 /\ rotCall[c].openN = 1

\* A rotation whose closeSink rejected has settled, and one whose rename
\* failed has returned false.
C15_Witness ==
  /\ \E c \in RotCalls : /\ rotCall[c].pc = "failed" /\ rotCall[c].did = {}
                           /\ rotCall[c].openN = 1
  /\ \E c \in RotCalls : /\ rotCall[c].pc = "done" /\ rotCall[c].result = "false"
                           /\ ~rotCall[c].waited /\ rotCall[c].openN = 1

(***************************************************************************)
(* Claims: FileTransport (specification SpecFile)                          *)
(***************************************************************************)

\* C14: when a write job settles, succeeded or failed, processed grows by
\* the batch's entry count, the job is gone from the queue, and a failed
\* write has been reported through the error channel.
C14_WriteCountedOnce ==
  [][\A b \in ft.jrun :
       b \notin ft'.jrun =>
         /\ ft'.logProcessed = ft.logProcessed + Len(b)
         /\ b \notin SeqToSet(ft'.jq)
         /\ Len(ft'.jq) + Cardinality(ft'.jrun) = Len(ft.jq) + Cardinality(ft.jrun) - 1
         /\ fLive' = fLive => fErrs' > fErrs]_vars

\* A write has failed: its entries are processed, reported and in no file,
\* and the queue is empty.
C14_Witness ==
  /\ ft.logProcessed = ft.logRequests
  /\ ft.logProcessed > 0
  /\ fErrs > 0
  /\ fLive = <<>> /\ fRotated = <<>>
  /\ FIdle(ft)

\* Batch size 1, size threshold 1, no failure so far, two entries at most.
TwoEntryRun ==
  /\ fOpt.batchSize = 1
  /\ fOpt.hasRotator /\ fOpt.rotate.maxSize = 1
  /\ fErrs = 0
  /\ ft.logRequests <= 2

InFile(e) ==
  \/ e \in SeqToSet(fLive)
  \/ \E i \in 1..Len(fRotated) : e \in SeqToSet(fRotated[i].content)

InJob(e) == \E b \in SeqToSet(ft.jq) \cup ft.jrun : e \in SeqToSet(b)

\* C16: with batch size 1 and size threshold 1, two logged entries give
\* exactly one rotation; the first entry is in the rotated file and the
\* second is handed to the stream only after the rotation has finished,
\* and ends in the new live file.
C16_OneRotationForTwoEntries ==
  TwoEntryRun =>
    /\ fRot.n <= 1
    /\ InJob(2) \/ InFile(2) => fRot.n = 1 /\ fRot.pc = "none"
    /\ fRot.n = 1 /\ fRot.pc \notin {"closing", "rename"} =>
         Len(fRotated) = 1 /\ fRotated[1].content = <<1>>
    /\ ft.logRequests = 2 /\ FQuiescent =>
         fRot.n = 1 /\ Len(fRotated) = 1 /\ fLive = <<2>>

\* Both entries are flushed after the one rotation.
C16_Witness ==
  /\ TwoEntryRun
  /\ ft.logRequests = 2 /\ FQuiescent
  /\ fRot.n = 1 /\ fLive = <<2>> /\ fRotated[1].content = <<1>>

\* C17: with size threshold 1, retention limit 1 and compression, three
\* writes, each flushed before the next, rotate on the second and on the
\* third write; one compressed rotated file remains, the older one pruned.
C17_TwoRotationsOneFileKept ==
  /\ fOpt.hasRotator /\ fOpt.rotate.maxSize = 1
  /\ fOpt.rotate.compress /\ fOpt.rotate.hasMaxFiles /\ fOpt.rotate.maxFiles = 1
  /\ fErrs = 0
  /\ fStrict
  /\ ft.logRequests = 3 /\ FQuiescent
  => /\ fRot.n = 2
     /\ Len(fRotated) = 1
     /\ fRotated[1].gz
     /\ fRotated[1].content = <<2>>

(***************************************************************************)
(* Claims: Transport (specification Spec)                                  *)
(***************************************************************************)

CloseInvoked == \E c \in CloseIds : call.main[c].pc # "idle"

CloseCompletes(c) == call.main[c].pc # "done" /\ call'.main[c].pc = "done"

NoLogAfterClose == \A m \in errs' : m.type \notin {"closing", "closed"}

\* C1: for log() calls followed by close(), on a local or an offloaded
\* transport, when close() completes the transport's processed counter
\* equals its requested counter.
C1_ProcessedEqualsRequested ==
  [][\A c \in CloseIds :
       CloseCompletes(c) /\ NoLogAfterClose
         => tr'.main.logProcessed = tr'.main.logRequests]_vars

\* C2: a flushAndWait() call has not completed unless every entry submitted
\* before the call has been counted as processed, by the local sink or by
\* the worker replica, also when flushAndWait() calls overlap.
C2_FlushCoversEarlierEntries ==
  \A f \in FlushIds :
    call.main[f].pc = "done" => call.main[f].before \subseteq (tr.main.counted \cup tr.rep.counted)

LogStep == tr'.main.logRequests = tr.main.logRequests + 1

\* C3: once close() has been invoked, a log() call adds one to requested
\* and one to processed, leaves the sink untouched, posts nothing to the
\* worker and reports exactly one error, which carries the rejected entry.
C3_LogAfterCloseRejected ==
  [][LogStep /\ CloseInvoked =>
       /\ tr'.main.logProcessed = tr.main.logProcessed + 1
       /\ tr'.main.buffer = tr.main.buffer
       /\ tr'.main.jq = tr.main.jq
       /\ tr'.main.jrun = tr.main.jrun
       /\ toWorker' = toWorker
       /\ \E why \in {"closing", "closed"} :
            errs' \ errs = {Msg(why, tr'.main.logRequests)}]_vars

\* A log() was rejected while close() was still under way.
C3_Witness ==
  /\ \E c \in CloseIds : call.main[c].pc \notin {"idle", "done", "rejected"}
  /\ \E e \in Entries : Msg("closing", e) \in errs
  /\ tr.main.logProcessed = tr.main.logRequests

Delivered == Len(toMain) > 0 /\ toMain' = Tail(toMain)

WorkerFails == wstate' # wstate /\ wstate' \in {"errored", "exited"}

TimedOut(h) == hs'[h] = [hs[h] EXCEPT !.outer = "rejected"]

\* C8: an error-tagged message neither completes nor fails a handshake and
\* leaves the awaiting call where it is; a pending handshake changes only
\* on another message, a worker error, a worker exit or its timeout.
C8_ErrorMessageIgnored ==
  [][/\ Delivered /\ Head(toMain).type = "error" =>
          /\ \A h \in HsIds : hs'[h] = IF hs[h].listening
                                         THEN [hs[h] EXCEPT !.skipped = TRUE] ELSE hs[h]
          /\ call'.main = call.main
          /\ promote' = promote
     /\ \A h \in HsIds :
          hs[h].outer = "pending" /\ hs'[h] # hs[h] /\ hs'[h].outer # "pending" =>
            \/ Delivered /\ Head(toMain).type # "error"
            \/ WorkerFails
            \/ TimedOut(h)]_vars

\* A handshake is still pending after an error-tagged message came in.
C8_Witness ==
  \E h \in HsIds : hs[h].skipped /\ hs[h].outer = "pending" /\ hs[h].inner = "pending"

\* The call that awaits handshake h has rejected.
Rejected(h) ==
  IF h = ReadyId THEN promote = "rejected" ELSE call.main[h].pc = "rejected"

\* C9: a pending handshake succeeds only on its expected reply; any other
\* message that is not error-tagged, a worker error or a worker exit fails
\* it at once and the awaiting call rejects; a decided outcome never changes.
C9_HandshakeOutcome ==
  [][\A h \in HsIds :
       /\ hs[h].inner = "pending" /\ hs'[h].inner = "resolved" =>
            Delivered /\ Head(toMain).type = HsExpected(h)
       /\ hs[h].inner = "pending" /\ Delivered
            /\ Head(toMain).type \notin {"error", HsExpected(h)} =>
            hs'[h].inner = "rejected" /\ (hs[h].outer = "pending" => Rejected(h)')
       /\ hs[h].inner = "pending" /\ WorkerFails =>
            hs'[h].inner = "rejected" /\ (hs[h].outer = "pending" => Rejected(h)')
       /\ hs[h].inner \in {"resolved", "rejected"} => hs'[h].inner = hs[h].inner
       /\ hs[h].outer \in {"resolved", "rejected"} => hs'[h].outer = hs[h].outer]_vars

\* One handshake got its reply; another one was failed by a reply that was
\* not its own while the worker was running.
C9_Witness ==
  /\ wstate = "ready"
  /\ \E f \in FlushIds : hs[f].outer = "resolved" /\ call.main[f].pc = "done"
  /\ \E c \in CloseIds : hs[c].inner = "rejected" /\ call.main[c].pc = "rejected"

\* C13: whenever a send job of the sink ends, on whatever way, processed
\* grows by the size of the job's chunk.
C13_ProcessedPerChunk ==
  [][\A x \in Ctx : \A b \in tr[x].jrun :
       b \notin tr'[x].jrun => tr'[x].logProcessed = tr[x].logProcessed + Len(b)]_vars

\* C10: isClosed implies isClosing, and neither flag is reset once set.
C10_Lifecycle ==
  /\ [](\A x \in Ctx : tr[x].isClosed => tr[x].isClosing)
  /\ [][\A x \in Ctx : /\ tr[x].isClosing => tr'[x].isClosing
                       /\ tr[x].isClosed => tr'[x].isClosed]_vars

\* An offloaded close() has completed: the replica closed on the local
\* path, main after the close handshake.
C10_Witness ==
  /\ tr.main.isClosed /\ tr.main.isClosing
  /\ tr.rep.isClosed /\ tr.rep.isClosing

\* The close() calls that took the worker path, in the state after a step.
OffloadedCloses == {c \in CallIds : IsClose(c) /\ hs'[c].outer # "none"}

\* C24: a close() on an offloaded transport posts 'close'; it calls
\* terminate() only once its handshake got 'closed', and completes, marking
\* the transport closed, only once the worker has exited; when its handshake
\* fails it rejects for good, without terminating the worker and without
\* marking the transport closed.
C24_OffloadedClose ==
  /\ [](\A c \in CallIds : (IsClose(c) /\ hs[c].outer # "none") =>
          /\ call.main[c].pc = "terminating" =>
               hs[c].inner = "resolved" /\ hs[c].outer = "resolved"
          /\ call.main[c].pc = "done" =>
               /\ hs[c].outer = "resolved"
               /\ wstate = "exited" /\ worker = "none" /\ tr.main.isClosed
          /\ hs[c].outer = "rejected" => call.main[c].pc = "rejected")
  /\ [][\A c \in OffloadedCloses :
          /\ (call.main[c].pc = "idle" /\ wstate \in {"starting", "ready"}) =>
               toWorker' = Append(toWorker, Msg("close", c))
          /\ (call.main[c].pc # "terminating" /\ call'.main[c].pc = "terminating") =>
               Len(toMain) > 0 /\ Head(toMain).type = "closed"
          /\ (call.main[c].pc # "done" /\ call'.main[c].pc = "done") =>
               /\ call.main[c].pc = "terminating" /\ wstate = "exited"
               /\ tr'.main.isClosed
          /\ (call.main[c].pc # "rejected" /\ call'.main[c].pc = "rejected") =>
               /\ tr'.main.isClosed = tr.main.isClosed
               /\ worker' = worker
          /\ call.main[c].pc = "rejected" =>
               /\ call'.main[c].pc = "rejected"
               /\ (~tr.main.isClosed /\ tr'.main.isClosed) =>
                    \E d \in CallIds \ {c} : call'.main[d].pc = "done"]_vars

\* An offloaded close() has gone all the way: 'closed' received, the worker
\* terminated, the transport marked closed.
C24_Witness ==
  \E c \in CloseIds :
     /\ hs[c].inner = "resolved" /\ hs[c].outer = "resolved"
     /\ call.main[c].pc = "done"
     /\ wstate = "exited" /\ worker = "none" /\ tr.main.isClosed


(***************************************************************************)
(* Claims: the counters of a local transport                               *)
(***************************************************************************)

\* C27: in every reachable state of a local transport processed <= requested,
\* each log() call being counted through one path only, also when doLog
\* throws after the entry was buffered (a flush triggered by the batch size
\* that fails to open the destination).
C27_ProcessedWithinRequested == ft.logProcessed <= ft.logRequests

\* C28: when every I/O operation terminates, every entry accepted by log() is
\* eventually counted in logProcessed, also when serializing its batch fails
\* and when it was buffered during a rotation, and a flushAndWait() that was
\* started eventually completes.
C28_EveryEntryCounted ==
  /\ \A n \in FEntries : (ft.logRequests >= n) ~> (ft.logProcessed >= n)
  /\ (fWait.pc # "idle") ~> (fWait.pc = "idle")

(***************************************************************************)
(* Claims: handshakes of the offloaded transport                           *)
(***************************************************************************)

\* A reply of the worker to a command: 'drained' or 'closed'.
ReplyDelivered == Delivered /\ Head(toMain).type \in {"drained", "closed"}

\* C29: while the worker runs and answers every 'drain' with 'drained' and
\* every 'close' with 'closed', no flushAndWait() or close() call fails in
\* its handshake, however the calls overlap: the delivery of a reply never
\* rejects a call that awaits its handshake.
C29_RepliesFailNoCall ==
  [][\A c \in CallIds :
       ReplyDelivered /\ wstate = "ready" /\ hs[c].outer = "pending" =>
         hs'[c].outer # "rejected"]_vars

\* C30: the listeners of a handshake are removed at whichever outcome comes
\* first, the timeout included: once the call awaiting the handshake has
\* settled, none of its listeners is registered on the worker, and listeners
\* once removed are not registered again.
C30_NoListenerAfterSettling ==
  /\ [](\A h \in HsIds : hs[h].outer \in {"resolved", "rejected"} => ~hs[h].listening)
  /\ [][\A h \in HsIds : hs[h].inner # "none" /\ ~hs[h].listening => ~hs'[h].listening]_vars

(***************************************************************************)
(* Claims: close()                                                         *)
(***************************************************************************)

\* The close() call c of context x completes in this step.
CloseCallCompletes(x, c) ==
  IsClose(c) /\ call[x][c].pc # "done" /\ call'[x][c].pc = "done"

\* The diagnostic of assertStats() goes out in this step: to options.onError
\* on the main thread, as a WORKER_ERROR: message from the replica.
StatsReported(x) ==
  IF x = "main" THEN Msg("stats", 0) \in errs'
  ELSE /\ Len(toMain') > Len(toMain)
       /\ \E i \in (Len(toMain) + 1)..Len(toMain') : toMain'[i] = Msg("error", 0)

\* C31: every close() that completes, on a local or on an offloaded
\* transport, has made the stats check (logProcessed = logRequests and no job
\* waiting) before the transport is marked closed: it completes with the
\* transport closed, and when the counters of the transport it was called on
\* disagree the diagnostic is reported.
C31_CloseChecksStats ==
  [][\A x \in Ctx : \A c \in CallIds :
       CloseCallCompletes(x, c) =>
         /\ tr'[x].isClosed
         /\ StatsViolated(tr'[x]) => StatsReported(x)]_vars

\* The flushAndWait() call f of the main transport completes in this step.
FlushCompletes(f) == call.main[f].pc # "done" /\ call'.main[f].pc = "done"

\* The entries counted as processed, by the main transport or by the replica.
CountedAnywhere == tr.main.counted \cup tr.rep.counted

\* C32: flushAndWait() completes with true exactly when every entry requested
\* before the call has been processed by the time it completes, on an
\* offloaded transport by the replica.
C32_ResultTellsSnapshotReached ==
  [][\A f \in FlushIds :
       FlushCompletes(f) =>
         (call'.main[f].result <=> call'.main[f].before \subseteq CountedAnywhere')]_vars

(***************************************************************************)
(* Claims: rotation                                                        *)
(***************************************************************************)

\* C33: whenever a rotate() call that started a rotation settles, by
\* returning or by an exception of closeSink, rename, compression, pruning or
\* openSink, isRotating is false and the callers waiting on the rotation are
\* released, so that a later rotate() can start a rotation.
C33_SettledRotationReleases ==
  [][\A c \in RotCalls :
       RotInBody(c) /\ rotCall'[c].pc \in {"done", "failed"} =>
         /\ ~rotIsRotating'
         /\ rotPromise' = 0
         /\ c \in rotResolved']_vars

\* The rotator is between the call of closeSink and the return of openSink.
FSinkClosedForRotation == fRot.pc \in {"closing", "rename", "compress", "prune"}

\* The write jobs of the transport's queue, waiting or running.
FJobs(t) == SeqToSet(t.jq) \cup t.jrun

\* C34: from the call of the rotator's closeSink until openSink has run no
\* write job is queued or running; while the transport's rotating flag is
\* set for one rotation (the batch it holds back stays the same) flush()
\* enqueues no batch, and an entry logged meanwhile is appended to the
\* buffer and stays there.
C34_NoWriteDuringRotation ==
  /\ [](FSinkClosedForRotation => ft.isRotating /\ FIdle(ft))
  /\ [][ft.isRotating /\ ft'.isRotating /\ fRot'.batch = fRot.batch =>
          /\ FJobs(ft') \subseteq FJobs(ft)
          /\ \E k \in 0..1 :
               /\ ft'.logRequests = ft.logRequests + k
               /\ ft'.buffer = ft.buffer \o [i \in 1..k |-> ft'.logRequests]]_vars

\* The file is being renamed while an entry logged after the rotation began
\* waits in the buffer.
C34_Witness ==
  /\ fRot.pc = "rename"
  /\ ft.isRotating
  /\ ft.buffer # <<>>
  /\ FIdle(ft)

(***************************************************************************)
(* Claims: order of the entries                                            *)
(***************************************************************************)

\* The entries of batch b are consecutive log() calls, in their order.
Consecutive(b) == \A i \in 1..(Len(b) - 1) : b[i + 1] = b[i] + 1

\* C35: entries are enqueued for writing in the order they were passed to
\* log(): each batch holds consecutive entries in submission order and the
\* batches are enqueued in submission order, also across a rotation (the
\* batch that triggered it goes before the batches of the entries after it).
C35_EnqueuedInSubmissionOrder ==
  /\ \A k \in 1..Len(ft.sent) : ft.sent[k] # <<>> /\ Consecutive(ft.sent[k])
  /\ \A k \in 1..(Len(ft.sent) - 1) :
       ft.sent[k][Len(ft.sent[k])] < ft.sent[k + 1][1]
  /\ ft.isRotating /\ ft.buffer # <<>> => fRot.batch[Len(fRot.batch)] < ft.buffer[1]

\* A rotation is over: the batch that triggered it was enqueued, and after
\* it a batch of an entry logged while the rotation was under way.
C35_Witness ==
  /\ fRot.pc = "none" /\ fRot.n = 1
  /\ Len(ft.sent) = 3
  /\ ft.sent[3] = <<3>>
  /\ fStrict = FALSE

\* The entries whose write has been attempted: those of the batches enqueued.
WriteAttempted(t) == UNION {SeqToSet(t.sent[k]) : k \in 1..Len(t.sent)}

\* close() goes on to doClose() in this step: the destination stream is ended.
FCloseEndsStream == fClose.pc \in {"idle", "waiting"} /\ fClose'.pc \in {"ending", "done"}

\* C36: when close() on a local FileTransport ends the destination stream,
\* the buffer is empty, no write job is queued or running, and the write of
\* every entry accepted before close() was invoked has been attempted.
C36_StreamEndsAfterWrites ==
  [][FCloseEndsStream =>
       /\ ft'.buffer = <<>>
       /\ FIdle(ft')
       /\ 1..fClose'.snapshot \subseteq WriteAttempted(ft')]_vars

(***************************************************************************)
(* Claims: the worker replica's replies                                    *)
(***************************************************************************)

\* The messages the replica posts to the main thread in this step.
PostedToMain ==
  IF Len(toMain') > Len(toMain) /\ SubSeq(toMain', 1, Len(toMain)) = toMain
    THEN SubSeq(toMain', Len(toMain) + 1, Len(toMain'))
    ELSE <<>>

CountType(seq, type) == Cardinality({i \in 1..Len(seq) : seq[i].type = type})

\* The replica's calls whose flushAndWait() or close() settles in this step.
ReplicaSettles == {c \in CallIds : call.rep[c].pc # "done" /\ call'.rep[c].pc = "done"}

\* The replica handles the command of call c in this step.
ReplicaHandles(c) == call.rep[c].pc = "idle" /\ call'.rep[c].pc # "idle"

C38_AttemptsInMessage ==
  rPc = "rejected" =>
    /\ rK = rCalls
    /\ 1 <= rK /\ rK <= Max(1, RequestedMaxRetry)
    /\ rLastError.kind # "none"
    /\ rLastError.attempt = rCalls

\* The retry budget of two or more attempts is used up: the rejection
\* counts them all.
C38_Witness ==
  /\ rPc = "rejected"
  /\ rBroke = "none"
  /\ rMaxRetry >= 2
  /\ rK = rMaxRetry

(***************************************************************************)
(* Claims: AsyncJobQueue start order                                       *)
(***************************************************************************)
\* The jobs handed to enqueue() so far (they are numbered in enqueue order)
\* and those of them that job() has not been called for yet.
Enqueued == {j \in Jobs : jobState[j] # "new"}
NotYetStarted == {j \in Jobs : jobState[j] = "queued"}

\* C39: every enqueued job is started exactly once and in enqueue order,
\* and length is the number of enqueued jobs not yet started: the list holds
\* exactly the jobs not yet started, once each and oldest first; a step
\* starts a job only if it was never started before and no job enqueued
\* before it is left waiting; a job started is never put back.
C39_StartedOnceInOrder ==
  /\ [](/\ QueueLength = Cardinality(NotYetStarted)
        /\ SeqToSet(queue) = NotYetStarted
        /\ \A i \in 1..Len(queue) : \A k \in 1..Len(queue) :
              i < k => queue[i] < queue[k]
        /\ \A j \in NotYetStarted : \A k \in Enqueued \ NotYetStarted : k < j)
  /\ [][\A j \in Jobs :
          /\ (jobState'[j] = "running" /\ jobState[j] # "running") =>
                /\ jobState[j] \in {"new", "queued"}
                /\ \A k \in Jobs : k < j => jobState'[k] \notin {"new", "queued"}
          /\ (jobState[j] \notin {"new", "queued"}) =>
                jobState'[j] \notin {"new", "queued"}]_vars

\* One job at a time: the first job has finished, the second is running,
\* and the third and fourth wait in that order, so length is 2.
C39_Witness ==
  /\ concurrency = 1
  /\ jobState[1] = "finished"
  /\ jobState[2] = "running"
  /\ queue = <<3, 4>>
  /\ QueueLength = 2

(***************************************************************************)
(* Claims: AsyncJobQueue progress                                          *)
(***************************************************************************)
\* C40: when the started jobs settle, every pending drain() completes; a
\* job that rejects is handled like one that resolves: its bookkeeping
\* runs, the step that runs it gives the slot to the oldest waiting job or
\* else lowers the counter, every enqueued job is started and finished
\* whatever the jobs before it did, and no drain() ends in anything but
\* completion.
C40_DrainsEventuallyComplete ==
  /\ \A d \in Drains : (drainState[d] = "pending") ~> (drainState[d] = "done")
  /\ \A j \in Jobs : (jobState[j] # "new") ~> (jobState[j] = "finished")
  /\ [](\A d \in Drains : drainState[d] \in {"idle", "pending", "done", "immediate"})
  /\ [][\A j \in Jobs :
          (jobState[j] = "rejected" /\ jobState'[j] = "finished") =>
            /\ Len(queue') = Max(0, Len(queue) - 1)
            /\ running' = IF Len(queue) > 0 THEN running ELSE running - 1
            /\ Len(queue) > 0 => jobState'[Head(queue)] = "running"]_vars

\* A first drain() has completed; a second one is pending while the job
\* that holds the only slot has rejected and a later job waits behind it.
C40_Witness ==
  /\ concurrency = 1
  /\ drainState[1] = "done"
  /\ drainState[2] = "pending"
  /\ jobState[1] = "finished"
  /\ jobState[2] = "rejected"
  /\ jobState[3] = "queued"

=============================================================================
